---- MODULE Spec2Model ----
(***************************************************************************)
(* ccnewline: a hook that appends a missing trailing newline to the files  *)
(* named on its standard input.                                            *)
(*                                                                         *)
(* The repository holds two snapshots of the program, and both are         *)
(* modelled; the variable pkg says which one a behaviour runs:             *)
(*   "main"        src/main.go (package main): no pattern filter, the file *)
(*                 is opened O_RDWR once and the newline is written at the *)
(*                 offset the last-byte read left behind;                  *)
(*   "processing"  src/internal/processing (packages processing and cli):  *)
(*                 include/exclude filter, the last byte is read through a *)
(*                 read-only descriptor and the newline is written through *)
(*                 a second descriptor opened O_WRONLY|O_APPEND.           *)
(*                                                                         *)
(* A string is a sequence of one-character strings, a file content is a    *)
(* sequence of byte values.                                                *)
(***************************************************************************)
EXTENDS Integers, Sequences, FiniteSets, TLC

\* ------------------------------------------------------------------------
\* Strings
\* ------------------------------------------------------------------------

\* F of the value of v, which is computed once
Bind(v, F(_)) == CHOOSE r \in {F(x) : x \in {v}} : TRUE

Drop(s, n) == SubSeq(s, n + 1, Len(s))

Contains(s, c) == \E k \in 1..Len(s) : s[k] = c

\* The characters of the model in ASCII order; Ord compares them as Go
\* compares runes.
AsciiOrder ==
    << " ", "*", ",", "-", ".", "/", "?", "[", "\\", "]", "^",
       "a", "b", "d", "g", "o", "t", "x" >>

Ord(c) == CHOOSE k \in 1..Len(AsciiOrder) : AsciiOrder[k] = c

Separator == "/"

\* the white space of strings.TrimSpace that the model's texts hold
Space == {" ", "\n", "\t", "\r"}

\* strings.TrimSpace
TrimLeft(s) ==
    Bind(s, LAMBDA t :
         Bind({i \in 1..Len(t) : t[i] \notin Space}, LAMBDA kept :
              IF kept = {} THEN << >>
              ELSE SubSeq(t, CHOOSE i \in kept : \A j \in kept : i <= j, Len(t))))

TrimRight(s) ==
    Bind(s, LAMBDA t :
         Bind({i \in 1..Len(t) : t[i] \notin Space}, LAMBDA kept :
              IF kept = {} THEN << >>
              ELSE SubSeq(t, 1, CHOOSE i \in kept : \A j \in kept : j <= i)))

TrimSpace(s) == TrimRight(TrimLeft(s))

\* strings.Split(s, sep) for a one-character separator: always at least one
\* field, empty fields kept.  Field k lies between separator k - 1 and
\* separator k.
Split(s, sep) ==
    Bind(s, LAMBDA t :
         Bind({i \in 1..Len(t) : t[i] = sep}, LAMBDA at :
              LET nth(k) == IF k = 0 THEN 0
                            ELSE IF k > Cardinality(at) THEN Len(t) + 1
                            ELSE CHOOSE i \in at : Cardinality({j \in at : j < i}) = k - 1
              IN  [k \in 1..(Cardinality(at) + 1) |->
                      SubSeq(t, nth(k - 1) + 1, nth(k) - 1)]))

\* strings.Join(elems, sep) for a one-character separator
RECURSIVE Join(_, _)
Join(elems, sep) ==
    Bind(elems, LAMBDA e :
         IF Len(e) = 0 THEN << >>
         ELSE IF Len(e) = 1 THEN e[1]
         ELSE e[1] \o << sep >> \o Join(Tail(e), sep))

\* the character at position i of s, "" past the end
At(s, i) == IF i >= 1 /\ i <= Len(s) THEN s[i] ELSE ""

\* ------------------------------------------------------------------------
\* path/filepath: Base and Match, as the pattern matcher calls them
\* ------------------------------------------------------------------------

RECURSIVE StripTrailingSlashes(_)
StripTrailingSlashes(path) ==
    IF Len(path) > 0 /\ path[Len(path)] = Separator
    THEN StripTrailingSlashes(SubSeq(path, 1, Len(path) - 1))
    ELSE path

\* index of the last separator of path, 0 when there is none
RECURSIVE LastSeparator(_, _)
LastSeparator(path, i) ==
    IF i = 0 THEN 0
    ELSE IF path[i] = Separator THEN i
    ELSE LastSeparator(path, i - 1)

Base(path) ==
    IF path = << >> THEN << "." >>
    ELSE Bind(StripTrailingSlashes(path), LAMBDA p :
              Bind(Drop(p, LastSeparator(p, Len(p))), LAMBDA e :
                   IF e = << >> THEN << Separator >> ELSE e))

RECURSIVE SkipStars(_)
SkipStars(p) == IF Len(p) > 0 /\ p[1] = "*" THEN SkipStars(Tail(p)) ELSE p

\* length of the chunk that starts p: up to the first star outside a range
RECURSIVE ScanEnd(_, _, _)
ScanEnd(p, i, inrange) ==
    IF i > Len(p) THEN Len(p)
    ELSE IF p[i] = "\\" THEN ScanEnd(p, IF i + 1 <= Len(p) THEN i + 2 ELSE i + 1, inrange)
    ELSE IF p[i] = "[" THEN ScanEnd(p, i + 1, TRUE)
    ELSE IF p[i] = "]" THEN ScanEnd(p, i + 1, FALSE)
    ELSE IF p[i] = "*" /\ ~inrange THEN i - 1
    ELSE ScanEnd(p, i + 1, inrange)

scanChunk(pattern) ==
    Bind(SkipStars(pattern), LAMBDA p :
         Bind(ScanEnd(p, 1, FALSE), LAMBDA n :
              [star  |-> Len(pattern) > 0 /\ pattern[1] = "*",
               chunk |-> SubSeq(p, 1, n),
               rest  |-> Drop(p, n)]))

ErrBadPattern == [rest |-> << >>, ok |-> FALSE, err |-> TRUE]

\* getEsc: a possibly escaped character of a character class
getEsc(chunk) ==
    IF Len(chunk) = 0 \/ chunk[1] = "-" \/ chunk[1] = "]"
    THEN [r |-> 0, nchunk |-> << >>, err |-> TRUE]
    ELSE LET c == IF chunk[1] = "\\" THEN Tail(chunk) ELSE chunk
         IN  IF Len(c) = 0 THEN [r |-> 0, nchunk |-> << >>, err |-> TRUE]
             ELSE [r |-> Ord(c[1]), nchunk |-> Tail(c), err |-> Len(c) = 1]

\* the ranges of a character class; r is the rune read from the name (0 once
\* the match has failed)
RECURSIVE classRanges(_, _, _, _)
classRanges(chunk, r, match, nrange) ==
    IF Len(chunk) > 0 /\ chunk[1] = "]" /\ nrange > 0
    THEN [chunk |-> Tail(chunk), match |-> match, err |-> FALSE]
    ELSE Bind(getEsc(chunk), LAMBDA lo :
              IF lo.err THEN [chunk |-> << >>, match |-> FALSE, err |-> TRUE]
              ELSE Bind(IF lo.nchunk[1] = "-" THEN getEsc(Tail(lo.nchunk)) ELSE lo,
                        LAMBDA hi :
                        IF hi.err THEN [chunk |-> << >>, match |-> FALSE, err |-> TRUE]
                        ELSE Bind(<< hi.nchunk, match \/ (lo.r <= r /\ r <= hi.r) >>,
                                  LAMBDA nm : classRanges(nm[1], r, nm[2], nrange + 1))))

RECURSIVE matchChunkFrom(_, _, _)
matchChunkFrom(chunk, s, wasFailed) ==
    IF Len(chunk) = 0
    THEN IF wasFailed THEN [rest |-> << >>, ok |-> FALSE, err |-> FALSE]
         ELSE [rest |-> s, ok |-> TRUE, err |-> FALSE]
    ELSE Bind(wasFailed \/ Len(s) = 0, LAMBDA failed :
         Bind(IF failed THEN s ELSE Tail(s), LAMBDA sNext :
              CASE chunk[1] = "[" ->
                     Bind(Len(chunk) > 1 /\ chunk[2] = "^", LAMBDA negated :
                          Bind(classRanges(Drop(chunk, IF negated THEN 2 ELSE 1),
                                           IF failed THEN 0 ELSE Ord(s[1]), FALSE, 0),
                               LAMBDA cls :
                               IF cls.err THEN ErrBadPattern
                               ELSE Bind(failed \/ (cls.match = negated), LAMBDA f :
                                         matchChunkFrom(cls.chunk, sNext, f))))
                [] chunk[1] = "?" ->
                     Bind(<< Tail(chunk), IF failed THEN TRUE ELSE s[1] = Separator >>,
                          LAMBDA cf : matchChunkFrom(cf[1], sNext, cf[2]))
                [] chunk[1] = "\\" ->
                     IF Len(chunk) = 1 THEN ErrBadPattern
                     ELSE Bind(<< Drop(chunk, 2), IF failed THEN TRUE ELSE chunk[2] # s[1] >>,
                               LAMBDA cf : matchChunkFrom(cf[1], sNext, cf[2]))
                [] OTHER ->
                     Bind(<< Tail(chunk), IF failed THEN TRUE ELSE chunk[1] # s[1] >>,
                          LAMBDA cf : matchChunkFrom(cf[1], sNext, cf[2]))))

matchChunk(chunk, s) == matchChunkFrom(chunk, s, FALSE)

RECURSIVE MatchFrom(_, _)
RECURSIVE MatchSkipping(_, _, _, _)

\* the star of a chunk skips i+1 characters of the name, never a separator
MatchSkipping(chunk, rest, name, i) ==
    IF ~(i < Len(name) /\ name[i + 1] # Separator)
    THEN [matched |-> FALSE, err |-> FALSE]
    ELSE Bind(matchChunk(chunk, Drop(name, i + 1)), LAMBDA m :
              IF m.ok
              THEN IF Len(rest) = 0 /\ Len(m.rest) > 0
                   THEN MatchSkipping(chunk, rest, name, i + 1)
                   ELSE MatchFrom(rest, m.rest)
              ELSE IF m.err THEN [matched |-> FALSE, err |-> TRUE]
              ELSE MatchSkipping(chunk, rest, name, i + 1))

MatchFrom(pattern, name) ==
    IF Len(pattern) = 0 THEN [matched |-> Len(name) = 0, err |-> FALSE]
    ELSE Bind(scanChunk(pattern), LAMBDA sc :
              IF sc.star /\ sc.chunk = << >>
              THEN [matched |-> ~Contains(name, Separator), err |-> FALSE]
              ELSE Bind(matchChunk(sc.chunk, name), LAMBDA m :
                        IF m.ok /\ (Len(m.rest) = 0 \/ Len(sc.rest) > 0)
                        THEN MatchFrom(sc.rest, m.rest)
                        ELSE IF m.err THEN [matched |-> FALSE, err |-> TRUE]
                        ELSE IF sc.star THEN MatchSkipping(sc.chunk, sc.rest, name, 0)
                        ELSE [matched |-> FALSE, err |-> FALSE]))

\* filepath.Match(pattern, name): (matched, err)
Match(pattern, name) == MatchFrom(pattern, name)

\* ------------------------------------------------------------------------
\* Bounds of the model
\* ------------------------------------------------------------------------

\* longest initial file content, in bytes
MaxLen == 1

\* most lines on standard input
MaxLines == 2

\* most patterns in the include or exclude list of the filter specification
MaxPatterns == 2

\* ------------------------------------------------------------------------
\* The file system
\* ------------------------------------------------------------------------

newlineByte == 10

\* the byte values of the model: the newline and the letter a
Bytes == {newlineByte, 97}

P_a_go == << "a", ".", "g", "o" >>
P_d_b_txt == << "d", "/", "b", ".", "t", "x", "t" >>

\* the paths of the model's file system
FsPaths == {P_a_go, P_d_b_txt}

Contents == UNION {[1..n -> Bytes] : n \in 0..MaxLen}

NoFile == [kind |-> "none", content |-> << >>, mode |-> "rw", dirsize |-> 0]

\* what a path can name: nothing, a directory (whose stat size the file
\* system decides: 0 on some, a block on others), or a regular file with its
\* bytes and the access its permission bits give the process (read-write,
\* read-only, write-only)
Files ==
    {NoFile}
    \cup {[kind |-> "dir", content |-> << >>, mode |-> "rw", dirsize |-> n] : n \in {0, 4096}}
    \cup {[kind |-> "file", content |-> c, mode |-> m, dirsize |-> 0] :
            c \in Contents, m \in {"rw", "ro", "wo"}}

Exists(f) == f.kind # "none"

\* os.Stat(...).Size()
StatSize(f) == IF f.kind = "dir" THEN f.dirsize ELSE Len(f.content)

CanRead(f) == f.kind = "dir" \/ (f.kind = "file" /\ f.mode \in {"rw", "ro"})

CanWrite(f) == f.kind = "file" /\ f.mode \in {"rw", "wo"}

\* file.Write of one byte at offset off (0-based) of a descriptor opened
\* without O_APPEND: overwrites the byte there, or extends the file
WriteAt(content, off, b) ==
    [k \in 1..(IF off + 1 > Len(content) THEN off + 1 ELSE Len(content)) |->
        IF k = off + 1 THEN b
        ELSE IF k <= Len(content) THEN content[k]
        ELSE 0]

VARIABLES
    pkg,            \* the snapshot that runs: "main" or "processing"
    args,           \* the values of the --include and --exclude flags
    stdin,          \* the lines of standard input
    fs,             \* the file system: path -> file
    fs0,            \* the file system when the process started
    config,         \* cli.Config: the Include and Exclude pattern lists
    filePaths,      \* the extracted paths
    pc,             \* where the process is: flags, input, loop, write, done, exit
    idx,            \* 1-based position in filePaths of the path being handled
    processedCount, \* ProcessFiles' count of paths that passed the filter
    inflight,       \* the call of the normalizer between its check and its write
    outcomes,       \* one record per handled path, in order
    trace,          \* the file system calls made so far, in order
    exitCode,       \* the process exit code, -1 while it runs
    fpath,          \* filter specification: the path given to shouldProcess
    fresult,        \* filter specification: what shouldProcess returned
    payload,        \* extraction specification: the number of the input
    parseErr,       \* extraction specification: the error of ParseToolInput
    summary,        \* the counts handed to ShowProcessingEnd
    output,         \* what was written to standard output and standard error
    external        \* the bytes other processes appended to files, in order

vars == << pkg, args, stdin, fs, fs0, config, filePaths, pc, idx, processedCount,
           inflight, outcomes, trace, exitCode, fpath, fresult, payload, parseErr,
           summary, output, external >>

\* no summary shown
NoSummary == [total |-> -1, attempted |-> -1]

\* no call in progress.  A call in progress has the path, the file as the
\* call found it, the file system calls it has made, and for package main the
\* open descriptor (fd) and its offset
NoCall == [path |-> << >>, before |-> NoFile, fd |-> FALSE, offset |-> 0, calls |-> << >>]

\* ------------------------------------------------------------------------
\* Package cli: flags
\* ------------------------------------------------------------------------

\* parsePatterns: a comma-separated flag value to its trimmed, non-empty
\* patterns
parsePatterns(patterns) ==
    IF patterns = << >> THEN << >>
    ELSE Bind(Split(patterns, ","), LAMBDA fields :
              SelectSeq([k \in 1..Len(fields) |-> TrimSpace(fields[k])],
                        LAMBDA t : t # << >>))

\* the command line: the values of --include and --exclude, the --debug and
\* --silent flags, and what else it holds ("none", "positional" for an
\* argument that is no flag, "undefined flag" for a flag that is not defined)
Args(i, e, d, sl, x) ==
    [include |-> i, exclude |-> e, debug |-> d, silent |-> sl, extra |-> x]

\* flagSet.Parse / flag.Parse with flag.ExitOnError: FALSE when the command
\* line holds a flag that is not defined, and the process exits 2
flagSetParse(a) == a.extra # "undefined flag"

\* the version flag: ShowVersion / showVersion prints the version and exits 0
showVersion(a) == a.extra = "version"

\* flagParser.parse, up to the call of validateArgs: the Config the flags give
parseConfig(a) ==
    [Exclude |-> IF a.exclude # << >> THEN parsePatterns(a.exclude) ELSE << >>,
     Include |-> IF a.include # << >> THEN parsePatterns(a.include) ELSE << >>,
     Debug |-> a.debug,
     Silent |-> a.silent]

\* ArgumentValidator.ValidateArgs of package main: flag.NArg() > 0 is an
\* error, and the process exits 1
mainValidateArgs(a) == a.extra # "positional"

\* FlagParser.Parse of package main: the Config, which has no pattern lists
mainParseConfig(a) ==
    [Exclude |-> << >>, Include |-> << >>, Debug |-> a.debug, Silent |-> a.silent]

\* mutant of validateArgs: the check is left out
validateArgs_accepts(cfg) == TRUE

\* validateArgs: TRUE when it lets the process go on, FALSE when it exits 1
validateArgs(cfg) == ~(Len(cfg.Exclude) > 0 /\ Len(cfg.Include) > 0)

\* ------------------------------------------------------------------------
\* Package processing: the pattern filter
\* ------------------------------------------------------------------------

\* mutant of matches: the loop ends at the first pattern that filepath.Match
\* reports as malformed
matches_stopsAtError(patterns, path) ==
    \E k \in 1..Len(patterns) :
        /\ Match(patterns[k], Base(path)).matched
        /\ \A j \in 1..(k - 1) : ~Match(patterns[j], Base(path)).err

\* globPatternMatcher.matches: some pattern matches the base name; an error
\* of filepath.Match is dropped
matches(patterns, path) ==
    IF Len(patterns) = 0 THEN FALSE
    ELSE \E k \in 1..Len(patterns) : Match(patterns[k], Base(path)).matched

\* mutant of shouldProcess: the include list is not consulted
shouldProcess_excludeOnly(cfg, filePath) == ~matches(cfg.Exclude, filePath)

\* mutant of shouldProcess: every path is processed
shouldProcess_always(cfg, filePath) == TRUE

\* fileFilter.shouldProcess
shouldProcess(cfg, filePath) ==
    IF Len(cfg.Include) > 0 /\ ~matches(cfg.Include, filePath) THEN FALSE
    ELSE IF matches(cfg.Exclude, filePath) THEN FALSE
    ELSE TRUE

\* ------------------------------------------------------------------------
\* encoding/json, as json.Unmarshal(text, &jsonObj) with jsonObj a
\* map[string]any uses it.  A text is a sequence of characters.  Of the
\* string escapes, \" \\ \/ \n \t \r are decoded; \b \f \u are not in the
\* texts of the model.
\* ------------------------------------------------------------------------

\* a decoded value: t is "string", "number", "bool", "null", "array" or
\* "object"; s holds the characters of a string or number; items holds the
\* elements of an array, or the members [k, v] of an object in text order
JsonValue(t, str, items) == [t |-> t, s |-> str, items |-> items]

JsonNull == JsonValue("null", << >>, << >>)

\* the result of scanning one value: the value and the position after it
JsonFail == [ok |-> FALSE, v |-> JsonNull, next |-> 0]

JsonOk(v, next) == [ok |-> TRUE, v |-> v, next |-> next]

JsonWs == {" ", "\n", "\t", "\r"}

Digits == {"0", "1", "2", "3", "4", "5", "6", "7", "8", "9"}

RECURSIVE skipWs(_, _)
skipWs(s, i) == IF At(s, i) \in JsonWs THEN skipWs(s, i + 1) ELSE i

RECURSIVE skipDigits(_, _)
skipDigits(s, i) == IF At(s, i) \in Digits THEN skipDigits(s, i + 1) ELSE i

\* the literal lit is at position i of s
HasLiteral(s, i, lit) ==
    /\ i + Len(lit) - 1 <= Len(s)
    /\ SubSeq(s, i, i + Len(lit) - 1) = lit

\* a string, from the position after its opening quote
RECURSIVE scanString(_, _, _)
scanString(s, i, acc) ==
    IF i > Len(s) THEN JsonFail
    ELSE IF s[i] = "\"" THEN JsonOk(JsonValue("string", acc, << >>), i + 1)
    ELSE IF s[i] = "\\"
    THEN IF At(s, i + 1) \in {"\"", "\\", "/"}
         THEN scanString(s, i + 2, Append(acc, s[i + 1]))
         ELSE IF At(s, i + 1) = "n" THEN scanString(s, i + 2, Append(acc, "\n"))
         ELSE IF At(s, i + 1) = "t" THEN scanString(s, i + 2, Append(acc, "\t"))
         ELSE IF At(s, i + 1) = "r" THEN scanString(s, i + 2, Append(acc, "\r"))
         ELSE JsonFail
    ELSE IF s[i] \in {"\n", "\t", "\r"} THEN JsonFail
    ELSE scanString(s, i + 1, Append(acc, s[i]))

\* a number: -? (0 | [1-9][0-9]*) (. [0-9]+)? ([eE] [+-]? [0-9]+)?
scanNumber(s, i) ==
    LET a == IF At(s, i) = "-" THEN i + 1 ELSE i
        b == IF At(s, a) = "0" THEN a + 1 ELSE skipDigits(s, a)
        c == IF At(s, b) = "." THEN skipDigits(s, b + 1) ELSE b
        d == IF At(s, c) \in {"e", "E"}
             THEN (IF At(s, c + 1) \in {"+", "-"} THEN c + 2 ELSE c + 1)
             ELSE c
        e == IF d > c THEN skipDigits(s, d) ELSE c
    IN  IF b > a /\ (c = b \/ c > b + 1) /\ (d = c \/ e > d)
        THEN JsonOk(JsonValue("number", SubSeq(s, i, e - 1), << >>), e)
        ELSE JsonFail

RECURSIVE scanValue(_, _)
RECURSIVE scanElements(_, _, _)
RECURSIVE scanMembers(_, _, _)

\* the elements of an array, from the position of an element
scanElements(s, i, acc) ==
    Bind(scanValue(s, i), LAMBDA v :
         IF ~v.ok THEN JsonFail
         ELSE Bind(skipWs(s, v.next), LAMBDA j :
                   IF At(s, j) = "," THEN scanElements(s, j + 1, Append(acc, v.v))
                   ELSE IF At(s, j) = "]"
                   THEN JsonOk(JsonValue("array", << >>, Append(acc, v.v)), j + 1)
                   ELSE JsonFail))

\* the members of an object, from the position of a key
scanMembers(s, i, acc) ==
    IF At(s, i) # "\"" THEN JsonFail
    ELSE Bind(scanString(s, i + 1, << >>), LAMBDA key :
         IF ~key.ok THEN JsonFail
         ELSE Bind(skipWs(s, key.next), LAMBDA c :
              IF At(s, c) # ":" THEN JsonFail
              ELSE Bind(scanValue(s, c + 1), LAMBDA v :
                   IF ~v.ok THEN JsonFail
                   ELSE Bind(<< skipWs(s, v.next), Append(acc, [k |-> key.v.s, v |-> v.v]) >>,
                             LAMBDA jm :
                        IF At(s, jm[1]) = ","
                        THEN Bind(skipWs(s, jm[1] + 1), LAMBDA n : scanMembers(s, n, jm[2]))
                        ELSE IF At(s, jm[1]) = "}"
                        THEN JsonOk(JsonValue("object", << >>, jm[2]), jm[1] + 1)
                        ELSE JsonFail))))

\* one value, white space before it skipped
scanValue(s, i) ==
    Bind(skipWs(s, i), LAMBDA j :
         IF At(s, j) = "{"
         THEN Bind(skipWs(s, j + 1), LAMBDA n :
                   IF At(s, n) = "}"
                   THEN JsonOk(JsonValue("object", << >>, << >>), n + 1)
                   ELSE scanMembers(s, n, << >>))
         ELSE IF At(s, j) = "["
         THEN Bind(skipWs(s, j + 1), LAMBDA n :
                   IF At(s, n) = "]"
                   THEN JsonOk(JsonValue("array", << >>, << >>), n + 1)
                   ELSE scanElements(s, j + 1, << >>))
         ELSE IF At(s, j) = "\"" THEN scanString(s, j + 1, << >>)
         ELSE IF At(s, j) = "-" \/ At(s, j) \in Digits THEN scanNumber(s, j)
         ELSE IF HasLiteral(s, j, << "t", "r", "u", "e" >>)
         THEN JsonOk(JsonValue("bool", << "t" >>, << >>), j + 4)
         ELSE IF HasLiteral(s, j, << "f", "a", "l", "s", "e" >>)
         THEN JsonOk(JsonValue("bool", << "f" >>, << >>), j + 5)
         ELSE IF HasLiteral(s, j, << "n", "u", "l", "l" >>) THEN JsonOk(JsonNull, j + 4)
         ELSE JsonFail)

\* json.Unmarshal into a map[string]any: an error for a text that is not one
\* JSON value and for a value that is neither an object nor null; null leaves
\* the nil map.  m holds the members of the map in text order.
Unmarshal(text) ==
    Bind(text, LAMBDA t :
         Bind(scanValue(t, 1), LAMBDA r :
              IF ~r.ok \/ skipWs(t, r.next) # Len(t) + 1
              THEN [err |-> TRUE, m |-> << >>]
              ELSE IF r.v.t = "object" THEN [err |-> FALSE, m |-> r.v.items]
              ELSE IF r.v.t = "null" THEN [err |-> FALSE, m |-> << >>]
              ELSE [err |-> TRUE, m |-> << >>]))

\* m[key] of a map[string]any decoded from members: the last member of that
\* key is the one the map holds
Lookup(m, key) ==
    LET at == {j \in 1..Len(m) : m[j].k = key}
    IN  IF at = {} THEN [exists |-> FALSE, v |-> JsonNull]
        ELSE [exists |-> TRUE, v |-> m[CHOOSE j \in at : \A l \in at : l <= j].v]

K_tool_input == << "t", "o", "o", "l", "_", "i", "n", "p", "u", "t" >>
K_path == << "p", "a", "t", "h" >>
K_file_path == << "f", "i", "l", "e", "_", "p", "a", "t", "h" >>
K_paths == << "p", "a", "t", "h", "s" >>

\* ------------------------------------------------------------------------
\* Package toolinput: standard input to paths.  Standard input is modelled
\* as the lines bufio.Scanner gives.
\* ------------------------------------------------------------------------

\* the non-empty string values of a sequence of decoded values
NonEmptyStrings(values) ==
    LET strs == SelectSeq(values, LAMBDA v : v.t = "string" /\ v.s # << >>)
    IN  [k \in 1..Len(strs) |-> strs[k].s]

\* mutant of extractPathsFromToolInput: the paths array is read first
extractPathsFromToolInput_pathsFirst(toolInput) ==
    LET field(name) ==
            LET e == Lookup(toolInput, name)
            IN  IF e.exists THEN NonEmptyStrings(<< e.v >>) ELSE << >>
        pathsValue == Lookup(toolInput, K_paths)
    IN  (IF pathsValue.exists /\ pathsValue.v.t = "array"
         THEN NonEmptyStrings(pathsValue.v.items) ELSE << >>)
        \o field(K_path) \o field(K_file_path)

\* pathExtractor.extractPathsFromToolInput
extractPathsFromToolInput(toolInput) ==
    LET field(name) ==
            LET e == Lookup(toolInput, name)
            IN  IF e.exists THEN NonEmptyStrings(<< e.v >>) ELSE << >>
        pathsValue == Lookup(toolInput, K_paths)
    IN  field(K_path) \o field(K_file_path)
        \o (IF pathsValue.exists /\ pathsValue.v.t = "array"
            THEN NonEmptyStrings(pathsValue.v.items) ELSE << >>)

\* pathExtractor.parseJSON
parseJSON(inputText) ==
    Bind(Unmarshal(inputText), LAMBDA u :
         IF u.err THEN [paths |-> << >>, err |-> TRUE]
         ELSE Bind(Lookup(u.m, K_tool_input), LAMBDA toolInput :
                   IF toolInput.exists /\ toolInput.v.t = "object"
                   THEN [paths |-> extractPathsFromToolInput(toolInput.v.items),
                         err |-> FALSE]
                   ELSE [paths |-> << >>, err |-> FALSE]))

\* mutant of parsePlainText: the lines are kept as they were read
parsePlainText_untrimmed(inputText) ==
    SelectSeq(Split(inputText, "\n"), LAMBDA l : TrimSpace(l) # << >>)

\* mutant of parsePlainText: blank lines are kept
parsePlainText_keepsBlank(inputText) ==
    Bind(Split(inputText, "\n"), LAMBDA lines :
         [k \in 1..Len(lines) |-> TrimSpace(lines[k])])

\* parsePlainText: every line trimmed, blank lines dropped, order kept
parsePlainText(inputText) ==
    Bind(Split(inputText, "\n"), LAMBDA lines :
         SelectSeq([k \in 1..Len(lines) |-> TrimSpace(lines[k])], LAMBDA l : l # << >>))

\* pathExtractor.parse
parse(inputText) ==
    Bind(parseJSON(inputText), LAMBDA r :
         IF ~r.err THEN r.paths ELSE parsePlainText(inputText))

\* mutant of ParseToolInput: plain text also when JSON gives no path
ParseToolInput_plainWhenEmpty(jsonText) ==
    Bind(parseJSON(jsonText), LAMBDA r :
         IF r.err \/ r.paths = << >>
         THEN [paths |-> parsePlainText(jsonText), err |-> FALSE]
         ELSE [paths |-> r.paths, err |-> FALSE])

\* ParseToolInput
ParseToolInput(jsonText) ==
    Bind(parseJSON(jsonText), LAMBDA r :
         IF r.err
         THEN [paths |-> parsePlainText(jsonText), err |-> FALSE]
         ELSE [paths |-> r.paths, err |-> FALSE])

\* mutant of readInputLines: the scanner is left after the first line
readInputLines_firstLine(lines) ==
    IF Len(lines) = 0 THEN << >> ELSE << lines[1] >>

\* readInputLines of package toolinput: blank lines at the start and at the
\* end are dropped
RECURSIVE readInputLines(_)
readInputLines(lines) ==
    IF Len(lines) = 0 THEN << >>
    ELSE IF TrimSpace(lines[1]) = << >> THEN readInputLines(Tail(lines))
    ELSE IF TrimSpace(lines[Len(lines)]) = << >>
    THEN readInputLines(SubSeq(lines, 1, Len(lines) - 1))
    ELSE lines

\* mutant of readPaths: every line is taken as a path
readPaths_everyLine(input) == input

\* mutant of readPaths: a path is taken once, where it is first named
readPaths_deduplicated(input) ==
    Bind(readInputLines(input), LAMBDA lines :
         IF Len(lines) = 0 THEN << >>
         ELSE Bind(parse(Join(lines, "\n")), LAMBDA paths :
                   SelectSeq([k \in 1..Len(paths) |->
                                 IF \E j \in 1..(k - 1) : paths[j] = paths[k]
                                 THEN << >> ELSE paths[k]],
                             LAMBDA p : p # << >>)))

\* inputReader.readPaths
readPaths(input) ==
    Bind(readInputLines(input), LAMBDA lines :
         IF Len(lines) = 0 THEN << >>
         ELSE Bind(Join(lines, "\n"), LAMBDA inputText : parse(inputText)))

\* ------------------------------------------------------------------------
\* Package main: standard input to paths
\* ------------------------------------------------------------------------

\* readInputLines of package main: empty lines at the start and at the end
\* are dropped
RECURSIVE mainReadInputLines(_)
mainReadInputLines(lines) ==
    IF Len(lines) = 0 THEN << >>
    ELSE IF lines[1] = << >> THEN mainReadInputLines(Tail(lines))
    ELSE IF lines[Len(lines)] = << >>
    THEN mainReadInputLines(SubSeq(lines, 1, Len(lines) - 1))
    ELSE lines

\* parseJSONToolInput: the tool_input object, ok FALSE for the nil map
parseJSONToolInput(jsonText) ==
    Bind(Unmarshal(jsonText), LAMBDA u :
         IF u.err THEN [ok |-> FALSE, m |-> << >>]
         ELSE Bind(Lookup(u.m, K_tool_input), LAMBDA toolInput :
                   IF toolInput.exists /\ toolInput.v.t = "object"
                   THEN [ok |-> TRUE, m |-> toolInput.v.items]
                   ELSE [ok |-> FALSE, m |-> << >>]))

\* extractPathsFromToolInput of package main
mainExtractPathsFromToolInput(toolInput) ==
    LET field(name) ==
            LET e == Lookup(toolInput, name)
            IN  IF e.exists THEN NonEmptyStrings(<< e.v >>) ELSE << >>
        pathsArray == Lookup(toolInput, K_paths)
    IN  field(K_path) \o field(K_file_path)
        \o (IF pathsArray.exists /\ pathsArray.v.t = "array"
            THEN NonEmptyStrings(pathsArray.v.items) ELSE << >>)

\* extractFilePaths
extractFilePaths(jsonText) ==
    Bind(parseJSONToolInput(jsonText), LAMBDA r :
         IF r.ok THEN mainExtractPathsFromToolInput(r.m) ELSE << >>)

\* PlainTextParser.Parse
PlainTextParserParse(inputText) ==
    Bind(Split(inputText, "\n"), LAMBDA lines :
         SelectSeq([k \in 1..Len(lines) |-> TrimSpace(lines[k])], LAMBDA l : l # << >>))

\* CompositeTextParser.Parse: the JSON parser when it finds a path, the
\* plain-text parser otherwise
CompositeTextParserParse(inputText) ==
    Bind(Split(TrimSpace(inputText), "\n"), LAMBDA lines :
         Bind(SelectSeq([k \in 1..Len(lines) |-> TrimSpace(lines[k])],
                        LAMBDA l : l # << >>),
              LAMBDA cleanLines :
              IF TrimSpace(inputText) = << >> \/ Len(cleanLines) = 0 THEN << >>
              ELSE Bind(Join(cleanLines, "\n"), LAMBDA jsonText :
                        Bind(extractFilePaths(jsonText), LAMBDA paths :
                             IF Len(paths) > 0 THEN paths
                             ELSE PlainTextParserParse(jsonText)))))

\* InputReader.ReadPaths
mainReadPaths(input) ==
    Bind(mainReadInputLines(input), LAMBDA lines :
         IF Len(lines) = 0 THEN << >>
         ELSE Bind(Join(lines, "\n"), LAMBDA inputText :
                   CompositeTextParserParse(inputText)))

\* ------------------------------------------------------------------------
\* The file system calls of a check, as trace entries
\* ------------------------------------------------------------------------

Call(op, path, arg) == [op |-> op, path |-> path, arg |-> arg]

\* ------------------------------------------------------------------------
\* Package main: FileProcessor.ProcessFile
\* ------------------------------------------------------------------------

MsgNotExist == "File does not exist, skipping"
MsgEmpty == "File is empty, skipping"
MsgAlready == "Already ends with newline"
MsgAdded == "Newline added successfully"
MsgFiltered == "Skipping (filtered)"
MsgError == "Error"

\* mutant of mainShouldProcessFile: the error of os.Stat is not looked at
mainShouldProcessFile_noExistCheck(f) ==
    IF StatSize(f) = 0 THEN MsgEmpty ELSE ""

\* shouldProcessFile of package main: the message it logs, "" when the file
\* is to be processed
mainShouldProcessFile(f) ==
    IF ~Exists(f) THEN MsgNotExist
    ELSE IF StatSize(f) = 0 THEN MsgEmpty
    ELSE ""

\* os.OpenFile(filePath, os.O_RDWR, 0o644) succeeds
mainOpenFile(f) == f.kind = "file" /\ f.mode = "rw"

\* checkLastByte of package main on an open descriptor: Seek(-1, SeekEnd)
\* fails on an empty file, else one byte is read and the offset is the size
mainCheckLastByte(content) ==
    IF Len(content) = 0 THEN [needsNewline |-> FALSE, err |-> TRUE, offset |-> 0]
    ELSE [needsNewline |-> content[Len(content)] # newlineByte, err |-> FALSE,
          offset |-> Len(content)]

\* ProcessFile up to its decision: a final outcome, or the write to come
mainProcessFile(path, f) ==
    LET skip == mainShouldProcessFile(f)
        stat == << Call("stat", path, "") >>
        open == stat \o << Call("open", path, "O_RDWR") >>
        chk  == mainCheckLastByte(f.content)
    IN  IF skip # "" THEN [next |-> "outcome", msg |-> skip, err |-> FALSE, calls |-> stat, offset |-> 0]
        ELSE IF ~mainOpenFile(f)
        THEN [next |-> "outcome", msg |-> MsgError, err |-> TRUE, calls |-> open, offset |-> 0]
        ELSE IF chk.err
        THEN [next |-> "outcome", msg |-> MsgError, err |-> TRUE, calls |-> open, offset |-> 0]
        ELSE IF chk.needsNewline
        THEN [next |-> "write", msg |-> "", err |-> FALSE,
              calls |-> open \o << Call("read", path, "last byte") >>, offset |-> chk.offset]
        ELSE [next |-> "outcome", msg |-> MsgAlready, err |-> FALSE,
              calls |-> open \o << Call("read", path, "last byte"),
                                   Call("readfile", path, "whole file") >>,
              offset |-> 0]

\* mutant of addNewlineToFile of package main: the byte is written at the
\* start of the file
mainAddNewlineToFile_atStart(f, offset) ==
    [f EXCEPT !.content = WriteAt(f.content, 0, newlineByte)]

\* mutant of addNewlineToFile of package main: the byte goes to the end of
\* the file as it is when the write is made
mainAddNewlineToFile_appends(f, offset) ==
    [f EXCEPT !.content = Append(f.content, newlineByte)]

\* addNewlineToFile of package main: file.Write on the descriptor ProcessFile
\* holds, at the offset the read left
mainAddNewlineToFile(f, offset) ==
    [f EXCEPT !.content = WriteAt(f.content, offset, newlineByte)]

\* ------------------------------------------------------------------------
\* Package processing: addNewlineIfNeeded
\* ------------------------------------------------------------------------

fileExists(f) == Exists(f)

isFileEmpty(f) == IF ~Exists(f) THEN TRUE ELSE StatSize(f) = 0

shouldProcessFile(f) == fileExists(f) /\ ~isFileEmpty(f)

\* mutant of checkLastByte: the byte read is not compared with newlineByte
checkLastByte_ignoresByte(f, seekOk) ==
    IF ~CanRead(f) THEN [needsNewline |-> FALSE, err |-> TRUE, read |-> FALSE]
    ELSE IF f.kind = "dir"
    THEN IF seekOk THEN [needsNewline |-> FALSE, err |-> TRUE, read |-> TRUE]
         ELSE [needsNewline |-> TRUE, err |-> FALSE, read |-> FALSE]
    ELSE [needsNewline |-> TRUE, err |-> FALSE, read |-> Len(f.content) > 0]

\* mutant of checkLastByte: the errors of Open and Read are dropped
checkLastByte_swallowsError(f, seekOk) ==
    IF ~CanRead(f) THEN [needsNewline |-> FALSE, err |-> FALSE, read |-> FALSE]
    ELSE IF f.kind = "dir"
    THEN IF seekOk THEN [needsNewline |-> FALSE, err |-> FALSE, read |-> TRUE]
         ELSE [needsNewline |-> TRUE, err |-> FALSE, read |-> FALSE]
    ELSE IF Len(f.content) = 0 THEN [needsNewline |-> TRUE, err |-> FALSE, read |-> FALSE]
    ELSE [needsNewline |-> f.content[Len(f.content)] # newlineByte, err |-> FALSE,
          read |-> TRUE]

\* checkLastByte of package processing: os.Open, Seek(-1, SeekEnd), Read.
\* A failed seek reports "needs a newline".  On a directory the seek fails
\* or succeeds with the file system (seekOk), and the read fails.
checkLastByte(f, seekOk) ==
    IF ~CanRead(f) THEN [needsNewline |-> FALSE, err |-> TRUE, read |-> FALSE]
    ELSE IF f.kind = "dir"
    THEN IF seekOk THEN [needsNewline |-> FALSE, err |-> TRUE, read |-> TRUE]
         ELSE [needsNewline |-> TRUE, err |-> FALSE, read |-> FALSE]
    ELSE IF Len(f.content) = 0 THEN [needsNewline |-> TRUE, err |-> FALSE, read |-> FALSE]
    ELSE [needsNewline |-> f.content[Len(f.content)] # newlineByte, err |-> FALSE,
          read |-> TRUE]

\* addNewlineIfNeeded up to its decision
addNewlineIfNeeded(path, f, seekOk) ==
    LET chk  == checkLastByte(f, seekOk)
        stat == IF fileExists(f)
                THEN << Call("stat", path, ""), Call("stat", path, "") >>
                ELSE << Call("stat", path, "") >>
        open == stat \o << Call("open", path, "O_RDONLY") >>
        read == IF chk.read THEN open \o << Call("read", path, "last byte") >> ELSE open
    IN  IF ~shouldProcessFile(f)
        THEN [next |-> "outcome", msg |-> MsgNotExist, err |-> FALSE, calls |-> stat]
        ELSE IF chk.err
        THEN [next |-> "outcome", msg |-> MsgError, err |-> TRUE, calls |-> read]
        ELSE IF ~chk.needsNewline
        THEN [next |-> "outcome", msg |-> MsgAlready, err |-> FALSE, calls |-> read]
        ELSE [next |-> "write", msg |-> "", err |-> FALSE, calls |-> read]

\* mutant of addNewlineToFile: the file is opened O_TRUNC, not O_APPEND
addNewlineToFile_truncates(f) ==
    IF ~CanWrite(f) THEN [ok |-> FALSE, file |-> f]
    ELSE [ok |-> TRUE, file |-> [f EXCEPT !.content = << newlineByte >>]]

\* addNewlineToFile of package processing: os.OpenFile(O_WRONLY|O_APPEND) and
\* one Write; ok is FALSE when the open fails
addNewlineToFile(f) ==
    IF ~CanWrite(f) THEN [ok |-> FALSE, file |-> f]
    ELSE [ok |-> TRUE, file |-> [f EXCEPT !.content = Append(f.content, newlineByte)]]

\* ------------------------------------------------------------------------
\* Output.  One entry per line written: the stream, the format of the
\* message and its argument (a path, a line, a count).  A title with the box
\* drawn around it is one entry.
\* ------------------------------------------------------------------------

Out(stream, msg, arg) == << [stream |-> stream, msg |-> msg, arg |-> arg] >>

OutEach(stream, msg, items) ==
    [k \in 1..Len(items) |-> [stream |-> stream, msg |-> msg, arg |-> items[k]]]

\* package logging: ConsoleLogger.Debug
Debug(cfg, msg, arg) == IF cfg.Debug THEN Out("stderr", msg, arg) ELSE << >>

DebugEach(cfg, msg, items) == IF cfg.Debug THEN OutEach("stderr", msg, items) ELSE << >>

\* package logging: ConsoleLogger.Info
Info(cfg, msg, arg) == IF ~cfg.Silent THEN Out("stdout", msg, arg) ELSE << >>

\* package logging: ConsoleLogger.ShowProcessingStart
ShowProcessingStart(cfg, files) ==
    IF ~cfg.Debug THEN << >>
    ELSE Debug(cfg, "INPUT", << >>)
         \o (IF Len(files) = 0 THEN Debug(cfg, "No files to process", << >>)
             ELSE DebugEach(cfg, "File: %s", files) \o Debug(cfg, "", << >>)
                  \o Debug(cfg, "PROCESSING", << >>))

\* package logging: ConsoleLogger.ShowProcessingEnd
ShowProcessingEnd(cfg, totalFiles, processedFiles) ==
    IF ~cfg.Debug THEN << >>
    ELSE Debug(cfg, "", << >>) \o Debug(cfg, "SUMMARY", << >>)
         \o Debug(cfg, "Total files: %d", << totalFiles >>)
         \o Debug(cfg, "Files processed: %d", << processedFiles >>)

\* errorHandler.handleError of package processing
handleError(cfg, filePath) ==
    Debug(cfg, "Error: %v", << >>) \o Out("stderr", "Error processing %s: %v", filePath)

\* pathExtractor.isJSON
isJSON(inputText) == ~Unmarshal(inputText).err

\* inputReader.readPaths: what it logs
readPathsLog(cfg, input) ==
    Bind(readInputLines(input), LAMBDA lines :
         IF Len(lines) = 0 THEN Debug(cfg, "Empty input", << >>)
         ELSE Bind(Join(lines, "\n"), LAMBDA inputText :
              Bind(parse(inputText), LAMBDA paths :
                   Debug(cfg, "Input received (%d lines):", << Len(lines) >>)
                   \o DebugEach(cfg, "  Line %d: %s", lines)
                   \o (IF Len(paths) > 0
                       THEN Debug(cfg, IF isJSON(inputText) THEN "JSON parsing successful"
                                       ELSE "Plain text parsing used", << >>)
                            \o Debug(cfg, "Extracted file paths:", << >>)
                            \o DebugEach(cfg, "  [%d] %s", paths)
                       ELSE Debug(cfg, "No file paths found", << >>)))))

\* package main: ConsoleLogger.Print
mainPrint(cfg, msg, arg) ==
    IF ~cfg.Silent /\ ~cfg.Debug THEN Out("stdout", msg, arg) ELSE << >>

\* package main: ConsoleLogger.Debug
mainDebug(cfg, msg, arg) == IF cfg.Debug THEN Out("stdout", msg, arg) ELSE << >>

mainDebugEach(cfg, msg, items) ==
    IF cfg.Debug THEN OutEach("stdout", msg, items) ELSE << >>

\* package main: ConsoleLogger.DebugSection
DebugSection(cfg, title) == IF cfg.Debug THEN Out("stdout", title, << >>) ELSE << >>

\* package main: ConsoleLogger.DebugEnd
DebugEnd(cfg) == IF cfg.Debug THEN Out("stdout", "section end", << >>) ELSE << >>

\* ErrorHandler.HandleError of package main
mainHandleError(cfg, filePath) ==
    mainDebug(cfg, "Error: %v", << >>) \o Out("stderr", "Error processing %s: %v", filePath)

\* TruncatedDisplayStrategy.calculateFirstLines
calculateFirstLines(maxLines) == IF maxLines >= 5 THEN 2 ELSE 1

\* TruncatedDisplayStrategy.Display
Display(cfg, lines, maxLines) ==
    IF Len(lines) <= maxLines THEN mainDebugEach(cfg, "  Line %d: %s", lines)
    ELSE mainDebugEach(cfg, "  Line %d: %s", SubSeq(lines, 1, calculateFirstLines(maxLines)))
         \o mainDebug(cfg, "  ... (%d lines omitted) ...", << Len(lines) - maxLines >>)
         \o mainDebugEach(cfg, "  Line %d: %s",
                          SubSeq(lines,
                                 Len(lines) - (maxLines - calculateFirstLines(maxLines)) + 1,
                                 Len(lines)))

\* debugFileContents: os.ReadFile of the whole file, and what it logs
debugFileContents(cfg, f) ==
    IF f.kind # "file" \/ ~CanRead(f)
    THEN mainDebug(cfg, "Failed to read file contents: %v", << >>)
    ELSE mainDebug(cfg, "File contents:", << >>)
         \o Bind(Split(f.content, newlineByte), LAMBDA lines : Display(cfg, lines, 5))

\* InputReader.ReadPaths: what it logs
mainReadPathsLog(cfg, input) ==
    Bind(mainReadInputLines(input), LAMBDA lines :
         DebugSection(cfg, "INPUT PARSING")
         \o (IF Len(lines) = 0 THEN mainDebug(cfg, "Empty input", << >>)
             ELSE Bind(Join(lines, "\n"), LAMBDA inputText :
                  Bind(CompositeTextParserParse(inputText), LAMBDA paths :
                       mainDebug(cfg, "Input received (%d lines):", << Len(lines) >>)
                       \o Display(cfg, lines, 3)
                       \o (IF Len(paths) > 0
                           THEN mainDebug(cfg, IF Len(extractFilePaths(inputText)) > 0
                                               THEN "JSON parsing successful"
                                               ELSE "JSON parsing failed, treating as plain text",
                                          << >>)
                                \o mainDebug(cfg, "Extracted file paths:", << >>)
                                \o mainDebugEach(cfg, "  [%d] %s", paths)
                           ELSE << >>))))
         \o DebugEnd(cfg))

\* ------------------------------------------------------------------------
\* The run
\* ------------------------------------------------------------------------

\* the values of a pattern flag: absent, or "*.go, " (one pattern, then a
\* comma and a blank)
F_none == << >>
F_go_blank == << "*", ".", "g", "o", ",", " " >>

FlagValues == {F_none, F_go_blank}

\* a command line without flags
NoFlags == Args(F_none, F_none, FALSE, FALSE, "none")

\* the lines that name no path: a blank line and an empty line
BlankLines == {<< " " >>, << >>}

\* standard input: lines that name paths of the file system, or lines that
\* name none
Stdins ==
    UNION {[1..n -> FsPaths] : n \in 0..MaxLines}
    \cup UNION {[1..n -> BlankLines] : n \in 1..MaxLines}

\* mutant of Outcome: the progress index is the position in the path list
Outcome_positionIndex(path, msg, err, before, after, calls, index) ==
    [path |-> path, msg |-> msg, err |-> err, before |-> before, after |-> after,
     calls |-> calls, index |-> IF index = 0 THEN 0 ELSE idx, total |-> Len(filePaths)]

\* what the loop learns of one path: the message logged for it, whether an
\* error came back, the file before and after, the file system calls made for
\* it, and the progress index/total logged with it (index 0: none logged)
Outcome(path, msg, err, before, after, calls, index) ==
    [path |-> path, msg |-> msg, err |-> err, before |-> before, after |-> after,
     calls |-> calls, index |-> index, total |-> Len(filePaths)]

\* the process at its start, for every variable that the command line,
\* standard input and the file system do not decide
Started ==
    /\ fs0 = fs
    /\ config = [Exclude |-> << >>, Include |-> << >>, Debug |-> FALSE, Silent |-> FALSE]
    /\ filePaths = << >>
    /\ idx = 0
    /\ processedCount = 0
    /\ inflight = NoCall
    /\ outcomes = << >>
    /\ trace = << >>
    /\ exitCode = -1
    /\ fpath = << >>
    /\ fresult = "none"
    /\ payload = 0
    /\ parseErr = FALSE
    /\ summary = NoSummary
    /\ output = << >>
    /\ external = << >>

\* the runs without --debug and --silent, on every file system of the model
Init ==
    /\ pkg \in {"main", "processing"}
    /\ args \in IF pkg = "main" THEN {NoFlags}
                ELSE {Args(i, e, FALSE, FALSE, "none") : i \in FlagValues, e \in FlagValues}
    /\ stdin \in Stdins
    /\ fs \in [FsPaths -> Files]
    /\ pc = "flags"
    /\ Started

\* main: ParseFlags, which exits 2 when the flags do not parse, exits 1 from
\* validateArgs (ValidateArgs in package main), or returns the Config.
\* Package main has no pattern flags.
ParseFlags ==
    /\ pc = "flags"
    /\ IF ~flagSetParse(args)
       THEN /\ pc' = "exit"
            /\ exitCode' = 2
            /\ config' = config
            /\ output' = output \o Out("stderr", "flag provided but not defined", << >>)
                                \o Out("stderr", "usage", << >>)
       ELSE IF showVersion(args)
       THEN /\ pc' = "exit"
            /\ exitCode' = 0
            /\ config' = config
            /\ output' = output
                  \o Out("stdout", "ccnewline %s (Built on %s from Git SHA %s)", << >>)
       ELSE IF pkg = "processing"
       THEN /\ config' = parseConfig(args)
            /\ IF validateArgs(parseConfig(args))
               THEN pc' = "input" /\ exitCode' = exitCode /\ output' = output
               ELSE /\ pc' = "exit"
                    /\ exitCode' = 1
                    /\ output' = output
                          \o Out("stderr",
                                 "Error: --exclude and --include are mutually exclusive",
                                 << >>)
       ELSE IF mainValidateArgs(args)
       THEN /\ config' = mainParseConfig(args)
            /\ pc' = "input"
            /\ UNCHANGED << exitCode, output >>
       ELSE /\ pc' = "exit"
            /\ exitCode' = 1
            /\ config' = config
            /\ output' = output \o Out("stderr", "usage", << >>)
    /\ UNCHANGED << external, payload, parseErr, summary, pkg, args, stdin, fs, fs0, filePaths,
                    idx, processedCount, inflight, outcomes, trace, fpath, fresult >>

\* Run / run: the paths are read; with none the run is over
ReadToolInput ==
    /\ pc = "input"
    /\ \E paths \in {IF pkg = "main" THEN mainReadPaths(stdin) ELSE readPaths(stdin)} :
           /\ filePaths' = paths
           /\ IF Len(paths) = 0
              THEN pc' = "done" /\ exitCode' = 0 /\ idx' = idx
              ELSE pc' = "loop" /\ exitCode' = exitCode /\ idx' = 1
           /\ output' =
                 IF pkg = "main"
                 THEN output \o mainReadPathsLog(config, stdin)
                      \o (IF Len(paths) = 0
                          THEN DebugSection(config, "RESULT")
                               \o mainDebug(config, "No files to process", << >>)
                               \o DebugEnd(config)
                          ELSE DebugSection(config, "PROCESSING")
                               \o mainDebug(config, "Total files to process: %d",
                                            << Len(paths) >>))
                 ELSE output \o readPathsLog(config, stdin)
                      \o ShowProcessingStart(config, paths)
                      \o (IF Len(paths) = 0 THEN ShowProcessingEnd(config, 0, 0) ELSE << >>)
           /\ summary' = IF pkg = "processing" /\ Len(paths) = 0
                         THEN [total |-> 0, attempted |-> 0] ELSE summary
    /\ UNCHANGED << external, payload, parseErr, pkg, args, stdin, fs, fs0, config,
                    processedCount, inflight, outcomes, trace, fpath, fresult >>

\* mutant of Advance: the loop is left when a path ends in an error
Advance_stopsOnError ==
    /\ idx' = idx + 1
    /\ pc' = IF idx >= Len(filePaths) \/ outcomes'[Len(outcomes')].err
             THEN "done" ELSE "loop"
    /\ exitCode' = IF idx >= Len(filePaths) \/ outcomes'[Len(outcomes')].err
                   THEN 0 ELSE exitCode

\* mutant of Advance: a run with a failed file ends with exit code 1
Advance_failureExitCode ==
    /\ idx' = idx + 1
    /\ pc' = IF idx >= Len(filePaths) THEN "done" ELSE "loop"
    /\ exitCode' = IF idx < Len(filePaths) THEN exitCode
                   ELSE IF \E k \in 1..Len(outcomes') : outcomes'[k].err THEN 1
                   ELSE 0

\* mutant of Advance: the path after the one just handled is passed over
Advance_skipsPath ==
    /\ idx' = idx + 2
    /\ pc' = IF idx + 1 >= Len(filePaths) THEN "done" ELSE "loop"
    /\ exitCode' = IF idx + 1 >= Len(filePaths) THEN 0 ELSE exitCode

\* the loop goes to the next path, and main returns after the last
Advance ==
    /\ idx' = idx + 1
    /\ pc' = IF idx >= Len(filePaths) THEN "done" ELSE "loop"
    /\ exitCode' = IF idx >= Len(filePaths) THEN 0 ELSE exitCode

\* what is written after the last path: ShowProcessingEnd in Run, DebugEnd
\* in processFiles
EndOutput(count) ==
    IF idx < Len(filePaths) THEN << >>
    ELSE IF pkg = "processing" THEN ShowProcessingEnd(config, Len(filePaths), count)
    ELSE DebugEnd(config)

\* mutant of EndSummary: every path is counted as attempted
EndSummary_countsAll(count) ==
    IF idx >= Len(filePaths) /\ pkg = "processing"
    THEN [total |-> Len(filePaths), attempted |-> Len(filePaths)]
    ELSE summary

\* the counts Run hands to ShowProcessingEnd after the last path
EndSummary(count) ==
    IF idx >= Len(filePaths) /\ pkg = "processing"
    THEN [total |-> Len(filePaths), attempted |-> count]
    ELSE summary

\* ProcessFiles: a path the filter rejects is logged and the loop continues
SkipFiltered ==
    /\ pc = "loop"
    /\ pkg = "processing"
    /\ ~shouldProcess(config, filePaths[idx])
    /\ LET p == filePaths[idx]
       IN  /\ outcomes' = Append(outcomes,
                                 Outcome(p, MsgFiltered, FALSE, fs[p], fs[p], << >>, 0))
           /\ output' = output \o Debug(config, "Skipping %s (filtered)", p)
                               \o EndOutput(processedCount)
    /\ summary' = EndSummary(processedCount)
    /\ Advance
    /\ UNCHANGED << external, payload, parseErr, pkg, args, stdin, fs, fs0, config, filePaths,
                    processedCount, inflight, trace, fpath, fresult >>

\* package main, processFiles -> ProcessFile, up to the write
ProcessFile ==
    /\ pc = "loop"
    /\ pkg = "main"
    /\ \E p \in {filePaths[idx]} : \E r \in {mainProcessFile(p, fs[p])} :
         LET progress == mainDebug(config, "[%d/%d] Processing: %s", p)
         IN  /\ trace' = trace \o r.calls
           /\ IF r.next = "write"
              THEN /\ inflight' = [path |-> p, before |-> fs[p], fd |-> TRUE,
                                   offset |-> r.offset, calls |-> r.calls]
                   /\ pc' = "write"
                   /\ output' = output \o progress
                   /\ UNCHANGED << idx, outcomes, exitCode >>
              ELSE /\ outcomes' = Append(outcomes,
                                         Outcome(p, r.msg, r.err, fs[p], fs[p],
                                                 r.calls, idx))
                   /\ inflight' = NoCall
                   /\ output' = output \o progress
                         \o (IF r.err THEN mainHandleError(config, p)
                             ELSE mainDebug(config, r.msg, << >>)
                                  \o (IF r.msg = MsgAlready
                                      THEN debugFileContents(config, fs[p]) ELSE << >>))
                         \o EndOutput(0)
                   /\ Advance
    /\ UNCHANGED << external, payload, parseErr, summary, pkg, args, stdin, fs, fs0, config,
                    filePaths, processedCount, fpath, fresult >>

\* package main, ProcessFile -> AddNewline: the write through the descriptor
AddNewline ==
    /\ pc = "write"
    /\ pkg = "main"
    /\ LET p == inflight.path
           f == mainAddNewlineToFile(fs[p], inflight.offset)
           w == << Call("readfile", p, "whole file"), Call("write", p, "at offset") >>
       IN  /\ fs' = [fs EXCEPT ![p] = f]
           /\ trace' = trace \o w
           /\ outcomes' = Append(outcomes,
                                 Outcome(p, MsgAdded, FALSE, inflight.before, f,
                                         inflight.calls \o w, idx))
           /\ output' = output \o mainDebug(config, "Adding newline (missing)", << >>)
                               \o debugFileContents(config, fs[p])
                               \o mainDebug(config, MsgAdded, << >>)
                               \o mainPrint(config, "Added newline to %s", p)
                               \o EndOutput(0)
    /\ inflight' = NoCall
    /\ Advance
    /\ UNCHANGED << external, payload, parseErr, summary, pkg, args, stdin, fs0, config,
                    filePaths, processedCount, fpath, fresult >>

\* package processing, ProcessFiles -> process -> addNewlineIfNeeded, up to
\* the write
AddNewlineIfNeeded ==
    /\ pc = "loop"
    /\ pkg = "processing"
    /\ shouldProcess(config, filePaths[idx])
    /\ processedCount' = processedCount + 1
    /\ \E seekOk \in BOOLEAN :
         \E p \in {filePaths[idx]} : \E r \in {addNewlineIfNeeded(p, fs[p], seekOk)} :
         LET progress == Debug(config, "  [%d/%d] Processing: %s", p)
         IN  /\ trace' = trace \o r.calls
             /\ IF r.next = "write"
                THEN /\ inflight' = [path |-> p, before |-> fs[p], fd |-> FALSE,
                                     offset |-> 0, calls |-> r.calls]
                     /\ pc' = "write"
                     /\ output' = output \o progress
                                         \o Debug(config, "Adding newline (missing)", << >>)
                     /\ UNCHANGED << idx, outcomes, exitCode, summary >>
                ELSE /\ outcomes' = Append(outcomes,
                                           Outcome(p, r.msg, r.err, fs[p], fs[p],
                                                   r.calls, processedCount + 1))
                     /\ inflight' = NoCall
                     /\ output' = output \o progress
                                         \o (IF r.err THEN handleError(config, p)
                                             ELSE Debug(config, r.msg, << >>))
                                         \o EndOutput(processedCount + 1)
                     /\ summary' = EndSummary(processedCount + 1)
                     /\ Advance
    /\ UNCHANGED << external, payload, parseErr, pkg, args, stdin, fs, fs0, config, filePaths,
                    fpath, fresult >>

\* package processing, addNewlineIfNeeded -> addNewlineToFile
AppendNewline ==
    /\ pc = "write"
    /\ pkg = "processing"
    /\ \E p \in {inflight.path} : \E r \in {addNewlineToFile(fs[p])} :
       LET w == << Call("open", p, "O_WRONLY|O_APPEND") >>
                  \o (IF r.ok THEN << Call("write", p, "append") >> ELSE << >>)
       IN  /\ fs' = [fs EXCEPT ![p] = r.file]
           /\ trace' = trace \o w
           /\ outcomes' = Append(outcomes,
                                 Outcome(p, IF r.ok THEN MsgAdded ELSE MsgError, ~r.ok,
                                         inflight.before, r.file, inflight.calls \o w,
                                         processedCount))
           /\ output' = output
                 \o (IF r.ok
                     THEN Debug(config, MsgAdded, << >>) \o Info(config, "Added newline to %s", p)
                     ELSE handleError(config, p))
                 \o EndOutput(processedCount)
    /\ summary' = EndSummary(processedCount)
    /\ inflight' = NoCall
    /\ Advance
    /\ UNCHANGED << external, payload, parseErr, pkg, args, stdin, fs0, config, filePaths,
                    processedCount, fpath, fresult >>

Next ==
    \/ ParseFlags
    \/ ReadToolInput
    \/ SkipFiltered
    \/ ProcessFile
    \/ AddNewline
    \/ AddNewlineIfNeeded
    \/ AppendNewline

Spec == Init /\ [][Next]_vars

\* the files of the runs checked for termination: none, a directory, and a
\* file that lacks the newline, writable or read-only
LiveFiles ==
    {f \in Files :
        \/ f = NoFile
        \/ f.kind = "dir" /\ f.dirsize = 4096
        \/ f.kind = "file" /\ f.mode \in {"rw", "ro"} /\ f.content = << 97 >>}

InitLive ==
    /\ pkg \in {"main", "processing"}
    /\ args \in IF pkg = "main" THEN {NoFlags}
                ELSE {NoFlags, Args(F_go_blank, F_none, FALSE, FALSE, "none")}
    /\ stdin \in Stdins
    /\ fs \in [FsPaths -> LiveFiles]
    /\ pc = "flags"
    /\ Started

\* runs in which the process is scheduled until it returns: main is one
\* thread that nothing blocks
SpecLive == InitLive /\ [][Next]_vars /\ WF_vars(Next)

\* most bytes other processes append during a run
MaxExternal == 1

\* another process appends one byte to the file the normalizer has checked
\* and not yet written: nothing locks the file between the two
ExternalAppend ==
    /\ pc = "write"
    /\ Len(external) < MaxExternal
    /\ fs[inflight.path].kind = "file"
    /\ \E b \in Bytes :
         /\ fs' = [fs EXCEPT ![inflight.path].content = Append(@, b)]
         /\ external' = Append(external,
                               [path |-> inflight.path, byte |-> b, at |-> idx,
                                offset |-> Len(fs[inflight.path].content)])
    /\ UNCHANGED << pkg, args, stdin, fs0, config, filePaths, pc, idx, processedCount,
                    inflight, outcomes, trace, exitCode, fpath, fresult, payload,
                    parseErr, summary, output >>

NextRace ==
    \/ Next
    \/ ExternalAppend

\* the run with other processes writing to its files
SpecRace == InitLive /\ [][NextRace]_vars

\* ------------------------------------------------------------------------
\* The command line: the same run under every combination of the flags
\* ------------------------------------------------------------------------

\* what else the command line holds besides the flags of the model
Extras == {"none", "positional", "undefined flag", "version"}

\* the files of these runs: none, a directory, a writable file that lacks
\* the newline, one that ends with it, and a read-only file that lacks it
CliFiles ==
    {f \in Files :
        \/ f = NoFile
        \/ f.kind = "dir" /\ f.dirsize = 4096
        \/ f.kind = "file" /\ f.mode = "rw" /\ f.content \in {<< 97 >>, << newlineByte >>}
        \/ f.kind = "file" /\ f.mode = "ro" /\ f.content = << 97 >>}

\* package main defines --debug, --silent and --version; package cli adds
\* --include and --exclude
CliArgs(p) ==
    {Args(i, e, d, sl, x) :
        i \in IF p = "main" THEN {F_none} ELSE FlagValues,
        e \in IF p = "main" THEN {F_none} ELSE FlagValues,
        d \in BOOLEAN, sl \in BOOLEAN, x \in Extras}

InitCli ==
    /\ pkg \in {"main", "processing"}
    /\ args \in CliArgs(pkg)
    /\ stdin \in UNION {[1..n -> FsPaths \cup {<< " " >>}] : n \in 0..MaxLines}
    /\ fs \in [FsPaths -> CliFiles]
    /\ pc = "flags"
    /\ Started

SpecCli == InitCli /\ [][Next]_vars

\* ------------------------------------------------------------------------
\* The filter on its own: shouldProcess applied to one path under one
\* accepted configuration
\* ------------------------------------------------------------------------

G_go == << "*", ".", "g", "o" >>
G_txt == << "*", ".", "t", "x", "t" >>
G_d_any == << "d", "/", "*" >>
G_d_go == << "d", "/", "*", ".", "g", "o" >>
G_q_go == << "?", ".", "g", "o" >>
G_class == << "[", "a", "-", "b", "]", ".", "*" >>
G_open == << "[" >>
G_any == << "*" >>

FilterPatterns == {G_go, G_txt, G_d_any, G_d_go, G_q_go, G_class, G_open, G_any}

P_d_a_go == << "d", "/", "a", ".", "g", "o" >>
P_b_txt == << "b", ".", "t", "x", "t" >>
P_d == << "d", "/" >>

FilterPaths == {P_a_go, P_d_a_go, P_d_b_txt, P_b_txt, P_d}

PatternLists == UNION {[1..n -> FilterPatterns] : n \in 0..MaxPatterns}

\* the configurations validateArgs lets through
FilterConfigs ==
    {[Exclude |-> e, Include |-> i, Debug |-> FALSE, Silent |-> FALSE] :
        << e, i >> \in {c \in PatternLists \X PatternLists : c[1] = << >> \/ c[2] = << >>}}

InitFilter ==
    /\ pkg = "processing"
    /\ args = NoFlags
    /\ stdin = << >>
    /\ fs = [p \in FsPaths |-> NoFile]
    /\ fs0 = fs
    /\ config \in FilterConfigs
    /\ filePaths = << >>
    /\ pc = "filter"
    /\ idx = 0
    /\ processedCount = 0
    /\ inflight = NoCall
    /\ outcomes = << >>
    /\ trace = << >>
    /\ exitCode = -1
    /\ fpath \in FilterPaths
    /\ fresult = "none"
    /\ payload = 0
    /\ parseErr = FALSE
    /\ summary = NoSummary
    /\ output = << >>
    /\ external = << >>

ApplyFilter ==
    /\ pc = "filter"
    /\ fresult' = IF shouldProcess(config, fpath) THEN "process" ELSE "skip"
    /\ pc' = "filtered"
    /\ UNCHANGED << external, payload, parseErr, summary, output, pkg, args, stdin, fs, fs0, config, filePaths, idx, processedCount,
                    inflight, outcomes, trace, exitCode, fpath >>

NextFilter == ApplyFilter

SpecFilter == InitFilter /\ [][NextFilter]_vars

\* ------------------------------------------------------------------------
\* The extraction on its own: the paths read from one standard input.  The
\* hook payloads are JSON values written out as text, which the extraction
\* has to decode.
\* ------------------------------------------------------------------------

JStr(str) == JsonValue("string", str, << >>)
JNum(str) == JsonValue("number", str, << >>)
JTrue == JsonValue("bool", << "t" >>, << >>)
JFalse == JsonValue("bool", << "f" >>, << >>)
JArr(items) == JsonValue("array", << >>, items)
JObj(members) == JsonValue("object", << >>, members)
Member(key, value) == [k |-> key, v |-> value]

\* a string as JSON text: quotes around it, quote and backslash escaped
RECURSIVE Escape(_)
Escape(str) ==
    IF Len(str) = 0 THEN << >>
    ELSE (IF str[1] \in {"\"", "\\"} THEN << "\\", str[1] >> ELSE << str[1] >>)
         \o Escape(Tail(str))

Quote(str) == << "\"" >> \o Escape(str) \o << "\"" >>

\* a JSON value as text; sp is written after every colon and comma
RECURSIVE Marshal(_, _)
RECURSIVE MarshalElements(_, _)
RECURSIVE MarshalMembers(_, _)

MarshalElements(items, sp) ==
    IF Len(items) = 0 THEN << >>
    ELSE IF Len(items) = 1 THEN Marshal(items[1], sp)
    ELSE Marshal(items[1], sp) \o << "," >> \o sp \o MarshalElements(Tail(items), sp)

MarshalMembers(members, sp) ==
    IF Len(members) = 0 THEN << >>
    ELSE Quote(members[1].k) \o << ":" >> \o sp \o Marshal(members[1].v, sp)
         \o (IF Len(members) = 1 THEN << >>
             ELSE << "," >> \o sp \o MarshalMembers(Tail(members), sp))

Marshal(v, sp) ==
    IF v.t = "string" THEN Quote(v.s)
    ELSE IF v.t = "number" THEN v.s
    ELSE IF v.t = "bool"
    THEN (IF v.s = << "t" >> THEN << "t", "r", "u", "e" >>
          ELSE << "f", "a", "l", "s", "e" >>)
    ELSE IF v.t = "null" THEN << "n", "u", "l", "l" >>
    ELSE IF v.t = "array" THEN << "[" >> \o MarshalElements(v.items, sp) \o << "]" >>
    ELSE << "{" >> \o MarshalMembers(v.items, sp) \o << "}" >>

\* what is written after a colon or comma: nothing, a blank, or a line break
\* and an indent
Spacings == {<< >>, << " " >>, << "\n", " " >>}

K_other == << "o", "t", "h", "e", "r" >>
K_tool_name == << "t", "o", "o", "l", "_", "n", "a", "m", "e" >>
N_123 == << "1", "2", "3" >>

ToolCall(toolInput) == JObj(<< Member(K_tool_input, toolInput) >>)

\* the hook payloads of the model
JsonInputs ==
    << ToolCall(JObj(<< Member(K_path, JStr(P_a_go)) >>)),
       ToolCall(JObj(<< Member(K_file_path, JStr(P_d_b_txt)) >>)),
       ToolCall(JObj(<< Member(K_paths, JArr(<< JStr(P_a_go), JNum(N_123), JsonNull,
                                                JStr(P_d_b_txt) >>)) >>)),
       ToolCall(JObj(<< Member(K_paths, JArr(<< JStr(P_b_txt), JStr(P_a_go) >>)),
                        Member(K_file_path, JStr(P_d_b_txt)),
                        Member(K_path, JStr(P_a_go)) >>)),
       ToolCall(JObj(<< Member(K_path, JNum(N_123)), Member(K_file_path, JTrue),
                        Member(K_paths, JStr(P_a_go)) >>)),
       ToolCall(JObj(<< Member(K_path, JStr(<< >>)),
                        Member(K_paths, JArr(<< JStr(<< >>), JStr(P_a_go),
                                                JStr(P_a_go) >>)) >>)),
       ToolCall(JObj(<< >>)),
       ToolCall(JObj(<< Member(K_path, JStr(<< >>)) >>)),
       JObj(<< Member(K_other, JStr(P_a_go)) >>),
       ToolCall(JStr(P_a_go)),
       ToolCall(JArr(<< JStr(P_a_go) >>)),
       ToolCall(JNum(N_123)),
       JObj(<< Member(K_other, ToolCall(JObj(<< Member(K_path, JStr(P_a_go)) >>))) >>),
       JObj(<< >>),
       JObj(<< Member(K_tool_name, JStr(K_other)),
               Member(K_tool_input, JObj(<< Member(K_file_path, JStr(P_a_go)),
                                            Member(K_other, JFalse) >>)) >>),
       ToolCall(JObj(<< Member(K_paths, JArr(<< JArr(<< JStr(P_a_go) >>),
                                                JObj(<< Member(K_path, JStr(P_a_go)) >>),
                                                JFalse >>)) >>)),
       ToolCall(JsonNull) >>

L_not_json == << "n", "o", "t", " ", "j", "s", "o", "n" >>

\* the inputs that are not JSON: lines of text, two of them broken payloads
\* (the closing brace missing; a comma before the closing brace)
TextInputs ==
    << << P_a_go, << >>, P_d_b_txt, << >> >>,
       << L_not_json >>,
       << << " " >> \o P_a_go \o << " " >>, << " " >>, P_d_b_txt >>,
       << SubSeq(Marshal(JsonInputs[1], << >>), 1,
                 Len(Marshal(JsonInputs[1], << >>)) - 1) >>,
       << << "{" >> \o Quote(K_tool_input) \o << ":", "{" >> \o Quote(K_path)
          \o << ":" >> \o Quote(P_a_go) \o << ",", "}", "}" >> >> >>

\* the inputs without a path: no line at all, or blank and empty lines only
BlankInputs ==
    << << >>,
       << << " " >> >>,
       << << >>, << " " >>, << >> >> >>

\* the lines of standard input for input number n
InputLines(n, sp) ==
    IF n <= Len(JsonInputs) THEN Split(Marshal(JsonInputs[n], sp), "\n")
    ELSE IF n <= Len(JsonInputs) + Len(TextInputs) THEN TextInputs[n - Len(JsonInputs)]
    ELSE BlankInputs[n - Len(JsonInputs) - Len(TextInputs)]

InitExtract ==
    /\ pkg \in {"main", "processing"}
    /\ args = NoFlags
    /\ payload \in 1..(Len(JsonInputs) + Len(TextInputs) + Len(BlankInputs))
    /\ \E sp \in Spacings : stdin = InputLines(payload, sp)
    /\ fs = [p \in FsPaths |-> NoFile]
    /\ fs0 = fs
    /\ config = [Exclude |-> << >>, Include |-> << >>, Debug |-> FALSE, Silent |-> FALSE]
    /\ filePaths = << >>
    /\ pc = "extract"
    /\ idx = 0
    /\ processedCount = 0
    /\ inflight = NoCall
    /\ outcomes = << >>
    /\ trace = << >>
    /\ exitCode = -1
    /\ fpath = << >>
    /\ fresult = "none"
    /\ parseErr = FALSE
    /\ summary = NoSummary
    /\ output = << >>
    /\ external = << >>

\* the extraction of the snapshot, applied to standard input
Extract ==
    /\ pc = "extract"
    /\ filePaths' = IF pkg = "main" THEN mainReadPaths(stdin) ELSE readPaths(stdin)
    /\ pc' = "extracted"
    /\ UNCHANGED << external, payload, parseErr, summary, output, pkg, args, stdin, fs, fs0,
                    config, idx, processedCount, inflight, outcomes, trace, exitCode,
                    fpath, fresult >>

\* ParseToolInput of package toolinput, applied to the text
ParseText ==
    /\ pc = "extract"
    /\ pkg = "processing"
    /\ filePaths' = ParseToolInput(Join(stdin, "\n")).paths
    /\ parseErr' = ParseToolInput(Join(stdin, "\n")).err
    /\ pc' = "parsed"
    /\ UNCHANGED << external, payload, summary, output, pkg, args, stdin, fs, fs0, config, idx,
                    processedCount, inflight, outcomes, trace, exitCode, fpath,
                    fresult >>

NextExtract == Extract \/ ParseText

SpecExtract == InitExtract /\ [][NextExtract]_vars

\* ------------------------------------------------------------------------
\* The outcomes of the specification's FileOutcome, read off what the loop
\* learns of a path
\* ------------------------------------------------------------------------

Repaired(o) == ~o.err /\ o.msg = MsgAdded
Unchanged(o) == ~o.err /\ o.msg = MsgAlready
Failed(o) == o.err
SkippedNotFound(o) == ~o.err /\ o.msg = MsgNotExist
SkippedEmpty(o) == ~o.err /\ o.msg = MsgEmpty
FilteredOut(o) == ~o.err /\ o.msg = MsgFiltered

\* the outcomes of the calls of the normalizer
Normalized == {k \in 1..Len(outcomes) : ~FilteredOut(outcomes[k])}

LacksNewline(f) ==
    f.kind = "file" /\ Len(f.content) > 0 /\ f.content[Len(f.content)] # newlineByte

EndsWithNewline(f) ==
    f.kind = "file" /\ Len(f.content) > 0 /\ f.content[Len(f.content)] = newlineByte

\* after holds the bytes of before at their offsets, then exactly one newline
OneNewlineAppended(before, after) ==
    /\ after.kind = "file"
    /\ Len(after.content) = Len(before.content) + 1
    /\ after.content[Len(after.content)] = newlineByte
    /\ \A j \in 1..Len(before.content) : after.content[j] = before.content[j]

\* ------------------------------------------------------------------------
\* C1
\* ------------------------------------------------------------------------

\* C1 as stated: for every existing, writable regular file whose content is
\* non-empty and does not end in 0x0A, normalize returns no error with outcome
\* Repaired, and the file is its old content followed by exactly one 0x0A.
C1_AsStated ==
    \A k \in Normalized :
        LET o == outcomes[k]
        IN  (LacksNewline(o.before) /\ CanWrite(o.before))
                => (Repaired(o) /\ OneNewlineAppended(o.before, o.after))

\* C1 amended: the same for every existing regular file the process can both
\* read and write (a write-only file cannot be opened for the last-byte read).
C1_RepairsReadableWritable ==
    \A k \in Normalized :
        LET o == outcomes[k]
        IN  (LacksNewline(o.before) /\ CanWrite(o.before) /\ CanRead(o.before))
                => (Repaired(o) /\ OneNewlineAppended(o.before, o.after))

C1_Witness ==
    \E k \in Normalized :
        /\ LacksNewline(outcomes[k].before)
        /\ outcomes[k].before.mode = "rw"
        /\ Repaired(outcomes[k])
        /\ fs[outcomes[k].path] = outcomes[k].after

\* ------------------------------------------------------------------------
\* C2
\* ------------------------------------------------------------------------

\* the normalizer can open the file for its check: read-write in package
\* main, read-only in package processing
CanOpenForCheck(f) ==
    IF pkg = "main" THEN CanRead(f) /\ CanWrite(f) ELSE CanRead(f)

AtMostOneByteAppended ==
    \A p \in FsPaths :
        \/ fs[p] = fs0[p]
        \/ OneNewlineAppended(fs0[p], fs[p]) /\ fs[p].mode = fs0[p].mode

RepairedThenUnchanged ==
    \A k, l \in Normalized :
        (k < l /\ outcomes[k].path = outcomes[l].path /\ Repaired(outcomes[k]))
            => (Unchanged(outcomes[l]) /\ outcomes[l].after = outcomes[k].after)

\* C2 as stated: for every file whose last byte is 0x0A, also one just
\* repaired, normalize returns Unchanged with no error and leaves the content
\* as it was; consecutive calls append at most one byte in total.
C2_AsStated ==
    /\ \A k \in Normalized :
           LET o == outcomes[k]
           IN  EndsWithNewline(o.before) => (Unchanged(o) /\ o.after = o.before)
    /\ RepairedThenUnchanged
    /\ AtMostOneByteAppended

\* C2 amended: the same for every file ending in 0x0A that the normalizer can
\* open for its check.
C2_IdempotentWhenOpenable ==
    /\ \A k \in Normalized :
           LET o == outcomes[k]
           IN  (EndsWithNewline(o.before) /\ CanOpenForCheck(o.before))
                   => (Unchanged(o) /\ o.after = o.before)
    /\ RepairedThenUnchanged
    /\ AtMostOneByteAppended

C2_Witness ==
    \E k, l \in Normalized :
        /\ k < l
        /\ outcomes[k].path = outcomes[l].path
        /\ Repaired(outcomes[k])
        /\ Unchanged(outcomes[l])
        /\ Len(fs[outcomes[l].path].content) = Len(fs0[outcomes[l].path].content) + 1

\* ------------------------------------------------------------------------
\* C3
\* ------------------------------------------------------------------------

\* C3 as stated: an existing zero-length file is never mutated, however often
\* it is named; no error is returned and the outcome is Skipped(Empty), not
\* the Skipped(NotFound) of a path that does not exist.
C3_AsStated ==
    \A k \in Normalized :
        LET o == outcomes[k]
        IN  (o.before.kind = "file" /\ Len(o.before.content) = 0)
                => /\ ~o.err
                   /\ o.after = o.before
                   /\ fs[o.path] = fs0[o.path]
                   /\ SkippedEmpty(o)
                   /\ ~SkippedNotFound(o)

\* ------------------------------------------------------------------------
\* C4
\* ------------------------------------------------------------------------

\* C4: for a path that does not exist normalize returns Skipped(NotFound) with
\* no error, makes no open or write call on it, and the path still does not
\* exist afterwards.
C4_NotFoundSkipped ==
    \A k \in Normalized :
        LET o == outcomes[k]
        IN  ~Exists(o.before)
                => /\ SkippedNotFound(o)
                   /\ \A c \in 1..Len(o.calls) : o.calls[c].op = "stat"
                   /\ ~Exists(o.after)
                   /\ ~Exists(fs[o.path])

C4_Witness ==
    \E k \in Normalized :
        /\ ~Exists(outcomes[k].before)
        /\ SkippedNotFound(outcomes[k])
        /\ Len(outcomes[k].calls) = 1

\* ------------------------------------------------------------------------
\* C5
\* ------------------------------------------------------------------------

\* C5: when the path is a directory of non-zero size, or a file without a
\* trailing newline that cannot be opened for writing, normalize returns an
\* error and the target is left as it was.
C5_FailedLeavesTarget ==
    \A k \in Normalized :
        LET o == outcomes[k]
        IN  (\/ o.before.kind = "dir" /\ StatSize(o.before) > 0
             \/ LacksNewline(o.before) /\ ~CanWrite(o.before))
                => (Failed(o) /\ o.after = o.before /\ fs[o.path] = fs0[o.path])

C5_Witness ==
    \E k, l \in Normalized :
        /\ outcomes[k].before.kind = "dir"
        /\ Failed(outcomes[k])
        /\ LacksNewline(outcomes[l].before)
        /\ outcomes[l].before.mode = "ro"
        /\ Failed(outcomes[l])

\* ------------------------------------------------------------------------
\* C6
\* ------------------------------------------------------------------------

\* C6: the loop never short-circuits: whatever the outcome of a path (an
\* error, a skip), the next path is handled, and when the run is over every
\* position of the path list has its outcome.
C6_NoShortCircuit ==
    /\ \A k \in 1..Len(outcomes) :
           k <= Len(filePaths) /\ outcomes[k].path = filePaths[k]
    /\ pc \in {"loop", "write"}
           => (idx = Len(outcomes) + 1 /\ idx <= Len(filePaths) /\ ENABLED Next)
    /\ (pc = "done" /\ exitCode = 0) => Len(outcomes) = Len(filePaths)

C6_Witness ==
    /\ pc = "done"
    /\ Len(outcomes) = 2
    /\ Failed(outcomes[1])
    /\ Repaired(outcomes[2])

\* ------------------------------------------------------------------------
\* C7
\* ------------------------------------------------------------------------

\* the pattern matches the path the way the matcher of the code matches
MatchesPattern(pattern, path) == Match(pattern, Base(path)).matched

MatchesSome(patterns, path) ==
    \E k \in 1..Len(patterns) : MatchesPattern(patterns[k], path)

MatchesFullOrBase(pattern, path) ==
    Match(pattern, path).matched \/ Match(pattern, Base(path)).matched

\* C8 as stated: a pattern is matched against the full path as well as the
\* base name, so a path that an include pattern matches in full ("d/*" and
\* "d/b.txt") is processed and one that an exclude pattern matches in full is
\* skipped.
C8_AsStated ==
    fresult # "none" =>
        /\ (\E k \in 1..Len(config.Include) : MatchesFullOrBase(config.Include[k], fpath))
               => fresult = "process"
        /\ (\E k \in 1..Len(config.Exclude) : MatchesFullOrBase(config.Exclude[k], fpath))
               => fresult = "skip"

\* ------------------------------------------------------------------------
\* C9
\* ------------------------------------------------------------------------

BothSets(cfg) == Len(cfg.Include) > 0 /\ Len(cfg.Exclude) > 0

\* C9: a configuration with a non-empty include list and a non-empty exclude
\* list ends the process with exit code 1 before any path is read or
\* evaluated and before any file system call; every other configuration is
\* accepted.
C9_BothSetsRejected ==
    /\ (pc # "flags" /\ BothSets(parseConfig(args)))
           => /\ pc = "exit"
              /\ exitCode = 1
              /\ filePaths = << >>
              /\ outcomes = << >>
              /\ trace = << >>
              /\ fs = fs0
    /\ pc = "exit" => BothSets(parseConfig(args))
    /\ pc = "flags" => (trace = << >> /\ outcomes = << >> /\ fs = fs0)

C9_Witness ==
    /\ pc = "exit"
    /\ exitCode = 1
    /\ Len(stdin) > 0
    /\ \E k \in 1..Len(stdin) :
           stdin[k] \in FsPaths /\ LacksNewline(fs[stdin[k]]) /\ fs[stdin[k]].mode = "rw"

\* ------------------------------------------------------------------------
\* C10
\* ------------------------------------------------------------------------

\* the filter configuration rejects the path
Rejected(cfg, path) ==
    \/ cfg.Include # << >> /\ ~MatchesSome(cfg.Include, path)
    \/ MatchesSome(cfg.Exclude, path)

\* C10: a path the filter rejects is recorded as filtered out and never given
\* to the normalizer: no file system call is made for it, its file stays as
\* it was even when it lacks the trailing newline, and the loop goes on to
\* the next path.
C10_FilteredOutUntouched ==
    /\ \A k \in 1..Len(outcomes) :
           LET o == outcomes[k]
           IN  (pkg = "processing" /\ Rejected(config, o.path))
                   => /\ FilteredOut(o)
                      /\ o.calls = << >>
                      /\ o.after = o.before
                      /\ fs[o.path] = fs0[o.path]
    /\ \A k \in 1..Len(outcomes) :
           FilteredOut(outcomes[k]) => Rejected(config, outcomes[k].path)
    /\ \A c \in 1..Len(trace) : ~Rejected(config, trace[c].path)
    /\ (pc = "done" /\ exitCode = 0) => Len(outcomes) = Len(filePaths)

C10_Witness ==
    /\ pc = "done"
    /\ Len(outcomes) = 2
    /\ FilteredOut(outcomes[1])
    /\ LacksNewline(fs[outcomes[1].path])
    /\ fs[outcomes[1].path].mode = "rw"
    /\ Repaired(outcomes[2])

\* ------------------------------------------------------------------------
\* C11
\* ------------------------------------------------------------------------

\* the input is one of the hook payloads
IsPayload == payload >= 1 /\ payload <= Len(JsonInputs)

\* the payload the input was written from
Payload == JsonInputs[payload]

\* the member key of a payload object has a value
HasMember(obj, key) == \E j \in 1..Len(obj.items) : obj.items[j].k = key

\* the value of member key of a payload object, whose keys are distinct
MemberOf(obj, key) == obj.items[CHOOSE j \in 1..Len(obj.items) : obj.items[j].k = key].v

\* the payload is an object whose tool_input value is an object
HasToolInputObject(v) ==
    v.t = "object" /\ HasMember(v, K_tool_input) /\ MemberOf(v, K_tool_input).t = "object"

\* the non-empty string in member key of a tool_input object, if there is one
StringIn(toolInput, key) ==
    IF HasMember(toolInput, key) /\ MemberOf(toolInput, key).t = "string"
       /\ MemberOf(toolInput, key).s # << >>
    THEN << MemberOf(toolInput, key).s >> ELSE << >>

\* the non-empty strings among the elements of member paths, in array order
StringsInPaths(toolInput) ==
    IF HasMember(toolInput, K_paths) /\ MemberOf(toolInput, K_paths).t = "array"
    THEN LET elems == MemberOf(toolInput, K_paths).items
             kept == SelectSeq(elems, LAMBDA e : e.t = "string" /\ e.s # << >>)
         IN  [k \in 1..Len(kept) |-> kept[k].s]
    ELSE << >>

\* the paths a tool-call payload names: path, then file_path, then the
\* elements of paths
NamedPaths(v) ==
    LET toolInput == MemberOf(v, K_tool_input)
    IN  StringIn(toolInput, K_path) \o StringIn(toolInput, K_file_path)
        \o StringsInPaths(toolInput)

IsText == payload > Len(JsonInputs) /\ payload <= Len(JsonInputs) + Len(TextInputs)

\* the line holds a character that is not white space
NonBlank(line) == \E i \in 1..Len(line) : line[i] \notin Space

\* the non-blank lines of standard input, in input order, without the white
\* space around them
NonBlankLines ==
    LET kept == SelectSeq(stdin, NonBlank)
    IN  [k \in 1..Len(kept) |-> TrimSpace(kept[k])]

\* C12: when the input is not valid JSON, extract returns one path per
\* non-blank input line, in input order; blank lines give no entry and no
\* entry is empty.
C12_PlainTextLines ==
    (pc = "extracted" /\ IsText)
        => /\ filePaths = NonBlankLines
           /\ \A k \in 1..Len(filePaths) : filePaths[k] # << >>

C12_Witness ==
    /\ pc = "extracted"
    /\ IsText
    /\ stdin = << P_a_go, << >>, P_d_b_txt, << >> >>
    /\ filePaths = << P_a_go, P_d_b_txt >>

\* ------------------------------------------------------------------------
\* C13
\* ------------------------------------------------------------------------

\* standard input is empty or holds only blank and empty lines
BlankInput == \A k \in 1..Len(stdin) : ~NonBlank(stdin[k])

\* C13: for an input that is empty or holds only white space and blank
\* lines, extract returns the empty path list and the run touches no file: no
\* path is handled, no file system call is made and no file changes.
C13_BlankInputNoPaths ==
    BlankInput
        => /\ filePaths = << >>
           /\ pc \notin {"loop", "write"}
           /\ outcomes = << >>
           /\ trace = << >>
           /\ fs = fs0

C13_Witness ==
    /\ pc = "done"
    /\ exitCode = 0
    /\ Len(stdin) = 2
    /\ BlankInput
    /\ \E p \in FsPaths : LacksNewline(fs[p]) /\ fs[p].mode = "rw"

\* ------------------------------------------------------------------------
\* C14
\* ------------------------------------------------------------------------

\* C14 as stated: when the input is a JSON object whose tool_input value is
\* an object that names no path ({"tool_input":{}}, {"tool_input":{"path":""}}),
\* extract returns the empty list; it does not fall back to plain text, so the
\* JSON text is not returned as a path.
C14_AsStated ==
    (pc = "extracted" /\ IsPayload /\ HasToolInputObject(Payload)
     /\ NamedPaths(Payload) = << >>)
        => filePaths = << >>

\* ------------------------------------------------------------------------
\* C15
\* ------------------------------------------------------------------------

\* the payload is a JSON object without a tool_input object value: the key is
\* absent, or its value is not an object
LacksToolInputObject(v) == v.t = "object" /\ ~HasToolInputObject(v)

\* C15 as stated: when the input is valid JSON without a tool_input object
\* value, structured parsing counts as failed and extract returns each
\* non-blank line of the trimmed input as a path, in order.
C15_AsStated ==
    (pc = "extracted" /\ IsPayload /\ LacksToolInputObject(Payload))
        => filePaths = NonBlankLines

\* ------------------------------------------------------------------------
\* C16
\* ------------------------------------------------------------------------

\* C16: ParseToolInput applied to a valid JSON object whose tool_input key is
\* absent, appears only under another key, or has a value that is not an
\* object returns the empty path list and a nil error.
C16_ParseToolInputEmpty ==
    (pc = "parsed" /\ IsPayload /\ LacksToolInputObject(Payload))
        => (filePaths = << >> /\ ~parseErr)

C16_Witness ==
    /\ pc = "parsed"
    /\ IsPayload
    /\ LacksToolInputObject(Payload)
    /\ HasMember(Payload, K_other)
    /\ MemberOf(Payload, K_other).t = "object"
    /\ HasToolInputObject(MemberOf(Payload, K_other))
    /\ filePaths = << >>

\* ------------------------------------------------------------------------
\* C17
\* ------------------------------------------------------------------------

\* the positions of the path list whose path the filter lets through
PassFilter == {k \in 1..Len(filePaths) : ~Rejected(config, filePaths[k])}

\* C17: a run of the filtering package reports, once and at its end, total =
\* the number of extracted paths with duplicates counted, and attempted = the
\* number of those paths for which shouldProcess is true, so that 0 <=
\* attempted <= total; a path that passes the filter and is then skipped or
\* fails is among the attempted, a filtered-out path is not.  (Package main
\* has no filter and reports no attempted count.)
C17_SummaryCounts ==
    /\ (pkg = "processing" /\ pc = "done")
           => /\ summary.total = Len(filePaths)
              /\ summary.attempted = Cardinality(PassFilter)
              /\ 0 <= summary.attempted /\ summary.attempted <= summary.total
              /\ summary.attempted = Cardinality(Normalized)
              /\ \A k \in 1..Len(outcomes) :
                     FilteredOut(outcomes[k]) <=> k \notin PassFilter
              /\ \A k \in Normalized :
                     /\ outcomes[k].total = summary.total
                     /\ outcomes[k].index = Cardinality({l \in Normalized : l <= k})
    /\ (pkg = "main" \/ pc # "done") => summary = NoSummary

C17_Witness ==
    /\ pkg = "processing"
    /\ pc = "done"
    /\ summary = [total |-> 2, attempted |-> 1]
    /\ FilteredOut(outcomes[1])
    /\ SkippedNotFound(outcomes[2]) \/ Failed(outcomes[2])

\* ------------------------------------------------------------------------
\* C18
\* ------------------------------------------------------------------------

\* the process has ended with an exit code that is not the success code
ExitedNonZero == exitCode \notin {-1, 0}

RejectedCommandLine ==
    \/ args.extra = "undefined flag"
    \/ pkg = "main" /\ args.extra = "positional"
    \/ pkg = "processing" /\ args.extra = "none" /\ BothSets(parseConfig(args))
    \/ pkg = "processing" /\ args.extra = "positional" /\ BothSets(parseConfig(args))

C19_AsStated ==
    (args.silent /\ ~args.debug /\ args.extra = "none" /\ ~RejectedCommandLine)
        => output = << >>

\* ------------------------------------------------------------------------
\* C20
\* ------------------------------------------------------------------------

\* the positions at which path p was given to the normalizer
Occurrences(p) == {k \in Normalized : outcomes[k].path = p}

\* C20 as stated: when an existing, writable, non-empty file that lacks the
\* trailing newline is given to the normalizer twice in a run, the first
\* occurrence is Repaired, the second Unchanged, and the file ends exactly
\* one byte longer.
C20_AsStated ==
    pc = "done"
        => \A p \in FsPaths :
               (/\ Cardinality(Occurrences(p)) >= 2
                /\ LacksNewline(fs0[p])
                /\ CanWrite(fs0[p]))
                   => /\ \A k \in Occurrences(p) :
                             IF \A l \in Occurrences(p) : k <= l
                             THEN Repaired(outcomes[k])
                             ELSE Unchanged(outcomes[k])
                      /\ Len(fs[p].content) = Len(fs0[p].content) + 1

\* C20 amended: duplicate paths are not deduplicated.  A path named twice on
\* standard input is twice in the path list, and when a non-empty file that
\* the process can both read and write and that lacks the trailing newline is
\* given to the normalizer more than once in a run, its first occurrence is
\* Repaired, every later one is Unchanged, and after the run the file is its
\* old content and one newline byte: exactly one byte longer.
C20_DuplicatesProcessedTwice ==
    /\ (pc \in {"loop", "write", "done"} /\ Len(stdin) = 2 /\ stdin[1] = stdin[2]
            /\ stdin[1] \in FsPaths)
           => filePaths = stdin
    /\ pc = "done"
           => /\ Len(outcomes) = Len(filePaths)
              /\ \A p \in FsPaths :
                     (/\ Cardinality(Occurrences(p)) >= 2
                      /\ LacksNewline(fs0[p])
                      /\ fs0[p].mode = "rw")
                         => /\ \A k \in Occurrences(p) :
                                   IF \A l \in Occurrences(p) : k <= l
                                   THEN Repaired(outcomes[k])
                                   ELSE Unchanged(outcomes[k])
                            /\ fs[p].content = Append(fs0[p].content, newlineByte)
                            /\ Len(fs[p].content) = Len(fs0[p].content) + 1

C20_Witness ==
    /\ pc = "done"
    /\ filePaths = << P_a_go, P_a_go >>
    /\ LacksNewline(fs0[P_a_go])
    /\ fs0[P_a_go].mode = "rw"
    /\ Repaired(outcomes[1])
    /\ Unchanged(outcomes[2])
    /\ fs[P_a_go].content = Append(fs0[P_a_go].content, newlineByte)

\* ------------------------------------------------------------------------
\* C21
\* ------------------------------------------------------------------------

RECURSIVE CallsOf(_)
\* the file system calls of a sequence of outcomes, in order
CallsOf(os) == IF os = << >> THEN << >> ELSE Head(os).calls \o CallsOf(Tail(os))

\* outcome k is that of position k of the path list, and the calls made so
\* far are those of the paths that have their outcome, in list order, and
\* then those of the one path being handled
InListOrder ==
    /\ Len(outcomes) <= Len(filePaths)
    /\ \A k \in 1..Len(outcomes) : outcomes[k].path = filePaths[k]
    /\ trace = CallsOf(outcomes) \o inflight.calls
    /\ pc = "write" => (inflight.path = filePaths[idx] /\ Len(outcomes) = idx - 1)
    /\ pc # "write" => inflight = NoCall
    /\ pc = "loop" => (Len(outcomes) = idx - 1 /\ idx <= Len(filePaths))
    /\ pc = "done" => Len(outcomes) = Len(filePaths)

\* a step gives at most one path its outcome, the next of the list, and
\* leaves the outcomes already given as they are
OneOutcomePerStep ==
    /\ Len(outcomes') \in {Len(outcomes), Len(outcomes) + 1}
    /\ SubSeq(outcomes', 1, Len(outcomes)) = outcomes
    /\ filePaths # << >> => filePaths' = filePaths

\* the process has returned
Terminated == pc \in {"done", "exit"}

\* C21: a run handles the extracted paths strictly in list order and one at
\* a time (no call is made for path i+1 before path i has its outcome), each
\* occurrence once and never again, and it terminates after the last path
\* with exactly one outcome per occurrence.
C21_InOrderOnceAndTerminates ==
    /\ []InListOrder
    /\ [][OneOutcomePerStep]_vars
    /\ <>Terminated

C21_Witness ==
    /\ pc = "done"
    /\ Len(outcomes) = 2
    /\ filePaths[1] # filePaths[2]
    /\ Failed(outcomes[1])
    /\ Repaired(outcomes[2])
    /\ Len(outcomes[1].calls) > 0
    /\ trace = outcomes[1].calls \o outcomes[2].calls

\* ------------------------------------------------------------------------
\* C22
\* ------------------------------------------------------------------------

\* the paths that the lines of standard input name, in the order of the lines
LinesNamed ==
    SelectSeq([k \in 1..Len(stdin) |-> TrimSpace(stdin[k])], LAMBDA l : l # << >>)

\* a file has been filtered, stat-ed, opened or modified
FileTouched ==
    \/ trace # << >>
    \/ outcomes # << >>
    \/ inflight # NoCall
    \/ fs # fs0

\* until standard input has been read no file is touched, and from then on
\* the path list holds what every line of it names, the last included
InputReadToItsEnd ==
    /\ pc \in {"flags", "input"} => (~FileTouched /\ filePaths = << >>)
    /\ pc \in {"loop", "write", "done"} => filePaths = LinesNamed
    /\ FileTouched => pc \in {"loop", "write", "done"}

\* standard input is read in one step, which is taken once
InputReadOnce ==
    /\ pc = "input" => (pc' # "input" /\ ~FileTouched')
    /\ pc' = "input" => pc = "flags"
    /\ filePaths' # filePaths => pc = "input"

\* C22: standard input is read exactly once and to its end before the first
\* file is filtered, stat-ed, opened or modified: no file is touched while the
\* input is unread, the read is one step that is never repeated, and every
\* step on a file is taken with the paths of all lines of the input in hand.
C22_InputReadBeforeFiles ==
    /\ []InputReadToItsEnd
    /\ [][InputReadOnce]_vars

C22_Witness ==
    /\ pc = "write"
    /\ idx = 1
    /\ Len(stdin) = 2
    /\ stdin[1] # stdin[2]
    /\ filePaths = stdin
    /\ outcomes = << >>
    /\ trace # << >>

\* ------------------------------------------------------------------------
\* C23
\* ------------------------------------------------------------------------

\* C23 as stated: every existing non-empty file is opened for read-write
\* before it is inspected, so a non-empty file that cannot be opened for
\* writing yields Failed, also when its last byte is already 0x0A.
C23_AsStated ==
    \A k \in Normalized :
        LET o == outcomes[k]
        IN  (o.before.kind = "file" /\ Len(o.before.content) > 0 /\ ~CanWrite(o.before))
                => /\ Failed(o)
                   /\ \E c \in 1..Len(o.calls) :
                          o.calls[c].op = "open" /\ o.calls[c].arg = "O_RDWR"

\* ------------------------------------------------------------------------
\* C24
\* ------------------------------------------------------------------------

\* the file system calls that hand file content to the process
ContentReads == {k \in 1..Len(trace) : trace[k].op \in {"read", "readfile"}}

\* C24 as stated: in every output mode, debug included, the only file content
\* read while a file is normalized is its last byte: no call reads any other
\* byte of it.
C24_AsStated ==
    \A k \in ContentReads : trace[k].op = "read" /\ trace[k].arg = "last byte"

\* ------------------------------------------------------------------------
\* C25
\* ------------------------------------------------------------------------

\* the pattern opens a character class that it does not close
Malformed(pattern) ==
    \E i \in 1..Len(pattern) :
        /\ pattern[i] = "["
        /\ \A j \in (i + 1)..Len(pattern) : pattern[j] # "]"

\* a pattern of the list is well formed and matches the path
MatchesWellFormed(patterns, path) ==
    \E k \in 1..Len(patterns) :
        ~Malformed(patterns[k]) /\ MatchesPattern(patterns[k], path)

\* C25: a malformed glob pattern (an unclosed '[') matches no path and raises
\* nothing: filepath.Match reports it and the filter drops the report, so the
\* filter always decides, an include list accepts a path exactly when a
\* well-formed pattern of it matches, an exclude list rejects a path exactly
\* when a well-formed pattern of it matches, and the other patterns of the
\* list are evaluated whatever the position of the malformed one.
C25_MalformedPatternIgnored ==
    pc = "filtered" =>
        /\ fresult \in {"process", "skip"}
        /\ \A pattern \in FilterPatterns :
               Malformed(pattern)
                   => /\ Match(pattern, Base(fpath)).err
                      /\ ~MatchesPattern(pattern, fpath)
        /\ config.Include # << >>
               => (fresult = "process" <=> MatchesWellFormed(config.Include, fpath))
        /\ config.Exclude # << >>
               => (fresult = "skip" <=> MatchesWellFormed(config.Exclude, fpath))

C25_Witness ==
    /\ pc = "filtered"
    /\ fresult = "process"
    /\ Len(config.Include) = 2
    /\ Malformed(config.Include[1])
    /\ ~Malformed(config.Include[2])
    /\ MatchesPattern(config.Include[2], fpath)

\* ------------------------------------------------------------------------
\* C26
\* ------------------------------------------------------------------------

\* the bytes other processes appended to the file of outcome k between its
\* check and its write, in order
RECURSIVE BytesAt(_, _)
BytesAt(ext, k) ==
    IF ext = << >> THEN << >>
    ELSE (IF Head(ext).at = k THEN << Head(ext).byte >> ELSE << >>)
         \o BytesAt(Tail(ext), k)

\* the file ends in two newline bytes
EndsWithTwoNewlines(f) ==
    /\ Len(f.content) >= 2
    /\ f.content[Len(f.content)] = newlineByte
    /\ f.content[Len(f.content) - 1] = newlineByte

\* C26: nothing locks a file between the check of its last byte and the
\* write.  A repair in whose window no other process wrote appends exactly
\* one newline to the bytes checked and never leaves two newlines at the end.
\* A repair in whose window another process appended bytes: the append-mode
\* write (package processing) puts the newline after them, so after an
\* appended 0x0A the file ends in two; the write at the descriptor's offset
\* (package main) puts the newline at the old end offset, over the first
\* byte the other process wrote there.
C26_CheckThenWriteRace ==
    \A k \in 1..Len(outcomes) :
        LET o == outcomes[k]
            e == BytesAt(external, k)
            n == Len(o.before.content)
        IN  Repaired(o) =>
              /\ LacksNewline(o.before)
              /\ e = << >> => (OneNewlineAppended(o.before, o.after)
                                /\ ~EndsWithTwoNewlines(o.after))
              /\ (e # << >> /\ pkg = "processing")
                    => o.after.content = o.before.content \o e \o << newlineByte >>
              /\ (e # << >> /\ pkg = "main")
                    => /\ Len(o.after.content) = n + Len(e)
                       /\ o.after.content[n + 1] = newlineByte
                       /\ SubSeq(o.after.content, 1, n) = o.before.content
                       /\ SubSeq(o.after.content, n + 2, n + Len(e)) = Tail(e)

C26_Witness ==
    /\ pkg = "processing"
    /\ pc = "done"
    /\ Len(outcomes) = 1
    /\ Repaired(outcomes[1])
    /\ external = << [path |-> outcomes[1].path, byte |-> newlineByte, at |-> 1,
                      offset |-> 1] >>
    /\ outcomes[1].before.content = << 97 >>
    /\ fs[outcomes[1].path].content = << 97, newlineByte, newlineByte >>

\* ------------------------------------------------------------------------
\* C27
\* ------------------------------------------------------------------------

\* the path is in the extracted list and passes the filter of the run
ListedAndPassing(p) ==
    /\ \E k \in 1..Len(filePaths) : filePaths[k] = p
    /\ pkg = "processing" => shouldProcess(config, p)

\* C27 as stated: after a completed run, every listed path that passes the
\* filter and names an existing, non-empty, writable regular file ends with
\* 0x0A, whatever its position and the outcomes of the other paths.
C27_AsStated ==
    pc = "done" =>
        \A p \in FsPaths :
            (/\ ListedAndPassing(p)
             /\ fs0[p].kind = "file"
             /\ Len(fs0[p].content) > 0
             /\ CanWrite(fs0[p]))
                => EndsWithNewline(fs[p])

\* C27 amended: the same for every such file that the process can also read
\* (the last byte of a write-only file cannot be read, so it is left as it
\* is).
C27_ListedFilesEndWithNewline ==
    pc = "done" =>
        \A p \in FsPaths :
            (/\ ListedAndPassing(p)
             /\ fs0[p].kind = "file"
             /\ Len(fs0[p].content) > 0
             /\ CanWrite(fs0[p])
             /\ CanRead(fs0[p]))
                => EndsWithNewline(fs[p])

C27_Witness ==
    /\ pc = "done"
    /\ Len(outcomes) = 2
    /\ Failed(outcomes[1])
    /\ outcomes[2].path # outcomes[1].path
    /\ LacksNewline(fs0[outcomes[2].path])
    /\ fs0[outcomes[2].path].mode = "rw"
    /\ EndsWithNewline(fs[outcomes[2].path])

\* ------------------------------------------------------------------------
\* C28
\* ------------------------------------------------------------------------

\* the paths the run has been given
Named == {filePaths[k] : k \in 1..Len(filePaths)}

\* the file is what it was at the start, or that with one newline byte after
\* its last byte
InitialOrOneNewlineMore(p) ==
    /\ fs[p].kind = fs0[p].kind
    /\ fs[p].mode = fs0[p].mode
    /\ fs[p].dirsize = fs0[p].dirsize
    /\ \/ fs[p].content = fs0[p].content
       \/ fs[p].content = Append(fs0[p].content, newlineByte)

\* C28: at every point of a run without external modification, every file
\* holds its initial content or its initial content followed by one 0x0A; no
\* file is truncated, shortened, rewritten or created, a file that gained
\* the byte had content before, and a file that the path list does not name
\* is never changed.
C28_ContentInitialOrOneNewline ==
    \A p \in FsPaths :
        /\ InitialOrOneNewlineMore(p)
        /\ fs[p] # fs0[p] => (fs0[p].kind = "file" /\ Len(fs0[p].content) > 0)
        /\ p \notin Named => fs[p] = fs0[p]

C28_Witness ==
    /\ pc = "done"
    /\ Len(filePaths) = 1
    /\ fs[filePaths[1]].content = Append(fs0[filePaths[1]].content, newlineByte)
    /\ \E p \in FsPaths :
          /\ p \notin Named
          /\ LacksNewline(fs0[p])
          /\ fs0[p].mode = "rw"
          /\ fs[p] = fs0[p]

\* ------------------------------------------------------------------------
\* C29
\* ------------------------------------------------------------------------

\* the number of paths up to position k of the list that the filter lets
\* through
PassedUpTo(k) == Cardinality({l \in PassFilter : l <= k})

\* C29: at every point of the loop, the k-th path that passes the filter is
\* reported with index k, so the indexes are 1, 2, ... without gap in list
\* order; a filtered-out path is reported with no index and uses none; the
\* denominator is the number of extracted paths; and every index is at least
\* 1, at most the number of paths that pass the filter, which is at most the
\* total.
C29_ProgressNumbering ==
    \A k \in 1..Len(outcomes) :
        LET o == outcomes[k]
        IN  /\ o.total = Len(filePaths)
            /\ FilteredOut(o) => (o.index = 0 /\ k \notin PassFilter)
            /\ ~FilteredOut(o)
                  => /\ k \in PassFilter
                     /\ o.index = PassedUpTo(k)
                     /\ 1 <= o.index
                     /\ o.index <= Cardinality(PassFilter)
                     /\ Cardinality(PassFilter) <= o.total
                     /\ \A l \in 1..(k - 1) :
                            ~FilteredOut(outcomes[l]) => outcomes[l].index < o.index

C29_Witness ==
    /\ pkg = "processing"
    /\ pc = "done"
    /\ Len(outcomes) = 2
    /\ FilteredOut(outcomes[1])
    /\ ~FilteredOut(outcomes[2])
    /\ outcomes[2].index = 1
    /\ outcomes[2].total = 2

\* ------------------------------------------------------------------------
\* C30
\* ------------------------------------------------------------------------

\* the number of string values under path, file_path and paths[] of a
\* tool_input object, the empty strings counted
StringValues(toolInput) ==
    (IF HasMember(toolInput, K_path) /\ MemberOf(toolInput, K_path).t = "string"
     THEN 1 ELSE 0)
    + (IF HasMember(toolInput, K_file_path) /\ MemberOf(toolInput, K_file_path).t = "string"
       THEN 1 ELSE 0)
    + (IF HasMember(toolInput, K_paths) /\ MemberOf(toolInput, K_paths).t = "array"
       THEN Len(SelectSeq(MemberOf(toolInput, K_paths).items, LAMBDA e : e.t = "string"))
       ELSE 0)

\* the result comes from the JSON interpretation: the input is a payload
\* whose tool_input object names a path
FromJSON == IsPayload /\ HasToolInputObject(Payload) /\ NamedPaths(Payload) # << >>

NoSpaceAround(p) == p # << >> /\ p[1] \notin Space /\ p[Len(p)] \notin Space

====
